---------------------------- MODULE Spec2Model ----------------------------
(***************************************************************************)
(* Scoring-ledger auditor of sparket: the sync cycle of LedgerSync, the    *)
(* epoch-change state machine, the manifest verifier, the plugin           *)
(* dispatcher and the weight-verification plugin, as driven by             *)
(* AuditorRuntime._cycle; and the primary's ledger services: bump_epoch of *)
(* LedgerExporter with its database awaits, the AccessPolicy (eligibility, *)
(* challenge-response, token table, rate limit) and the routes of          *)
(* LedgerHTTPServer.                                                       *)
(*                                                                         *)
(* Conventions.  A Python Optional is a sequence of length 0 (None) or 1.  *)
(* Delta ids ("d_<start>_<end>", compared lexicographically, fixed width)  *)
(* are the integers 1..MaxDelta in the same order; the empty string of     *)
(* last_delta_id / last_delta_ts is 0.  Brier scores are integers in units *)
(* of 1e-4, probabilities in units of 1e-2.  time.time() is the variable   *)
(* now, in seconds.  A SHA-256 digest is modelled as an injective tag of   *)
(* the hashed content, a signature as the pair (signer, signed payload).   *)
(* Nonces and tokens (secrets.token_hex) are numbered in order of issue; 0 *)
(* is a value that is never issued.                                        *)
(***************************************************************************)
EXTENDS Integers, Sequences, FiniteSets, TLC

\* ------------------------------------------------------------------ bounds
MaxEpoch == 2
MaxDelta == 2
MaxDays == 3
MaxNeurons == 2
MaxWeight == 2
MaxCalls == 2
MaxNonces == 2
MaxTicks == 1
MaxWindowTicks == 2
MaxRequests == 4
rate_limit_per_hour == 2
max_tokens == 2
MaxPuts == 2
MaxWindowDay == 3
MaxHandlers == 3
MaxCycles == 12
MaxMiners == 3
MaxValue == 1
MaxSubmissions == 2

\* ------------------------------------------------------- program constants
LEDGER_SCHEMA_VERSION == 1
DaySeconds == 86400
WeekSeconds == 604800
max_epoch_bumps_per_day == 1
max_epoch_bumps_per_week == 3
ToleranceNum == 1
ToleranceDen == 1000
BrierTolerance == 0
ChallengeTTL == 120
RateWindow == 3600
min_stake_threshold == 100000
token_ttl == 3600
retention_days == 7
max_errors == 10
max_retries == 3
U16_MAX == 65535

ExpectedPrimaryHotkey == "primary_hk"

Epochs == 1..MaxEpoch
DeltaIds == 1..MaxDelta

None == <<>>
Some(x) == <<x>>

\* --------------------------------------------------------- hashing, signing
\* compute_section_hash: SHA-256 of the canonical form of a section.
compute_section_hash(data) == <<"sha256", data>>

\* _manifest_signing_payload: hash of the manifest without its signature.
manifest_signing_payload(manifest) ==
    <<"sha256", [f \in (DOMAIN manifest) \ {"signature"} |-> manifest[f]]>>

\* sign_manifest: the signature a wallet with this hotkey produces.
sign_manifest(manifest, hotkey) ==
    Some([signer |-> hotkey, payload |-> manifest_signing_payload(manifest)])

\* verify_manifest: False on an empty signature, else keypair.verify.
verify_manifest(manifest, hotkey_ss58) ==
    /\ manifest.signature # None
    /\ manifest.signature[1].signer = hotkey_ss58
    /\ manifest.signature[1].payload = manifest_signing_payload(manifest)


\* ------------------------------------------------------- published windows
\* Recompute records a checkpoint manifest may carry: none, one with a
\* reason_detail, one whose reason_detail is the empty string.
RecomputeRecords ==
    { None,
      Some([reason_code |-> "SCORING_BUG", reason_detail |-> "fix"]),
      Some([reason_code |-> "SCORING_BUG", reason_detail |-> ""]) }

\* Kinds of checkpoint a store may hand out: exported and untouched; exported
\* and then one accumulator entry changed ("tampered"); exported with no
\* miners at all.
CheckpointKinds == {"good", "tampered", "empty"}

\* Kinds of delta: exported and untouched; exported and then a brier changed.
DeltaKinds == {"good", "tampered"}

\* LedgerManifest as export_checkpoint / export_delta build and sign it.
SignedManifest(window_type, epoch, window_end, content_hashes, record) ==
    LET unsigned ==
            [schema_version   |-> LEDGER_SCHEMA_VERSION,
             window_type      |-> window_type,
             window_end       |-> window_end,
             checkpoint_epoch |-> epoch,
             content_hashes   |-> content_hashes,
             primary_hotkey   |-> ExpectedPrimaryHotkey,
             signature        |-> None,
             recompute_record |-> record]
    IN  [unsigned EXCEPT !.signature = sign_manifest(unsigned, ExpectedPrimaryHotkey)]

\* export_checkpoint: roster, accumulators and scoring_config are hashed into
\* the manifest, which is then signed.
export_checkpoint(epoch, record, kind) ==
    LET roster == IF kind = "empty" THEN <<>>
                  ELSE <<[miner_id |-> 1, uid |-> 1, hotkey |-> "hk_1"]>>
        accumulators == IF kind = "empty" THEN <<>>
                        ELSE <<[miner_id |-> 1, uid |-> 1, brier_ws |-> 10, brier_wt |-> 50]>>
        scoring_config == [burn_rate |-> 90]
        exported ==
            [manifest |-> SignedManifest("checkpoint", epoch, epoch,
                             [roster         |-> compute_section_hash(roster),
                              accumulators   |-> compute_section_hash(accumulators),
                              scoring_config |-> compute_section_hash(scoring_config)],
                             record),
             roster |-> roster,
             accumulators |-> accumulators,
             scoring_config |-> scoring_config]
    IN  IF kind = "tampered"
        THEN [exported EXCEPT !.accumulators[1].brier_ws = 11]
        ELSE exported

\* The settled submissions and outcomes of the delta with a given id.
DeltaSubmissions(id) ==
    IF id = 1
    THEN <<[miner_id |-> 1, market_id |-> 10, side |-> "home", imp_prob |-> 60,
            brier |-> Some(1600)]>>
    ELSE <<[miner_id |-> 1, market_id |-> 10, side |-> "away", imp_prob |-> 50,
            brier |-> None],
           [miner_id |-> 2, market_id |-> 10, side |-> "home", imp_prob |-> 50,
            brier |-> Some(2500)]>>

DeltaOutcomes(id) == <<[market_id |-> 10, result |-> Some("home")]>>

\* export_delta: both sections are hashed into the manifest, which is signed.
export_delta(id, epoch, kind) ==
    LET subs == DeltaSubmissions(id)
        outs == DeltaOutcomes(id)
        exported ==
            [manifest |-> SignedManifest("delta", epoch, id,
                             [settled_submissions |-> compute_section_hash(subs),
                              settled_outcomes    |-> compute_section_hash(outs)],
                             None),
             settled_submissions |-> subs,
             settled_outcomes |-> outs]
    IN  IF kind = "tampered"
        THEN [exported EXCEPT !.settled_submissions[Len(subs)].brier = Some(9900)]
        ELSE exported

Checkpoints ==
    { export_checkpoint(e, r, k) : e \in Epochs, r \in RecomputeRecords, k \in CheckpointKinds }

Deltas(id) == { export_delta(id, e, k) : e \in Epochs, k \in DeltaKinds }

\* --------------------------------------------------------- ManifestVerifier
RECURSIVE section_errors(_, _, _)
\* The content-hash loop of _verify over the section names in order.
section_errors(manifest, names, sections) ==
    IF names = <<>> THEN <<>>
    ELSE LET section_name == Head(names)
             rest == section_errors(manifest, Tail(names), sections)
         IN  IF section_name \notin DOMAIN manifest.content_hashes
             THEN <<<<"missing content hash for section", section_name>>>> \o rest
             ELSE IF compute_section_hash(sections[section_name])
                        # manifest.content_hashes[section_name]
                  THEN <<<<"content hash mismatch for", section_name>>>> \o rest
                  ELSE rest

\* A verifier that returns at the first check that fails.
verify_first_failure(window, names, expected_type) ==
    LET manifest == window.manifest
        hashes == section_errors(manifest, names, window)
        errors ==
            IF manifest.schema_version # LEDGER_SCHEMA_VERSION
            THEN <<<<"schema_version mismatch">>>>
            ELSE IF manifest.primary_hotkey # ExpectedPrimaryHotkey
            THEN <<<<"primary_hotkey mismatch">>>>
            ELSE IF ~verify_manifest(manifest, ExpectedPrimaryHotkey)
            THEN <<<<"signature verification failed">>>>
            ELSE IF hashes # <<>> THEN <<Head(hashes)>>
            ELSE IF manifest.window_type # expected_type
            THEN <<<<"window_type mismatch">>>>
            ELSE <<>>
    IN  [valid |-> Len(errors) = 0, errors |-> errors]

\* ManifestVerifier._verify: all five checks run, each failure adds an error,
\* kept as the tuple of the parts of its message.
verify(window, names, expected_type) ==
    LET manifest == window.manifest
        errors ==
            (IF manifest.schema_version # LEDGER_SCHEMA_VERSION
             THEN <<<<"schema_version mismatch">>>> ELSE <<>>)
            \o (IF manifest.primary_hotkey # ExpectedPrimaryHotkey
                THEN <<<<"primary_hotkey mismatch">>>> ELSE <<>>)
            \o (IF ~verify_manifest(manifest, ExpectedPrimaryHotkey)
                THEN <<<<"signature verification failed">>>> ELSE <<>>)
            \o section_errors(manifest, names, window)
            \o (IF manifest.window_type # expected_type
                THEN <<<<"window_type mismatch">>>> ELSE <<>>)
    IN  [valid |-> Len(errors) = 0, errors |-> errors]

verify_checkpoint(cp) ==
    verify(cp, <<"roster", "accumulators", "scoring_config">>, "checkpoint")

verify_delta(delta) ==
    verify(delta, <<"settled_submissions", "settled_outcomes">>, "delta")

\* --------------------------------------------------------------- LedgerSync
\* LedgerSync.__init__ with no state file: the in-memory state.
InitSync ==
    [epoch             |-> 0,
     last_delta_id     |-> 0,
     last_delta_ts     |-> 0,
     accumulator       |-> <<>>,
     recompute_history |-> <<>>]

\* _save_state: the JSON document that replaces the state file (written to a
\* temporary file, then renamed over auditor_state.json).
save_state(s) ==
    Some([epoch             |-> s.epoch,
          last_delta_id     |-> s.last_delta_id,
          last_delta_ts     |-> s.last_delta_ts,
          accumulator       |-> s.accumulator,
          recompute_history |-> s.recompute_history])

RECURSIVE apply_submissions(_, _)
\* The loop of _apply_delta over delta.settled_submissions.
apply_submissions(accumulator, subs) ==
    IF subs = <<>> THEN accumulator
    ELSE LET sub == Head(subs)
             mid == sub.miner_id
             acc1 == IF mid \in DOMAIN accumulator THEN accumulator
                     ELSE accumulator @@
                          (mid :> [brier_ws |-> 0, brier_wt |-> 0, count |-> 0])
             acc2 == IF sub.brier # None
                     THEN [acc1 EXCEPT ![mid] =
                              [brier_ws |-> @.brier_ws + sub.brier[1],
                               brier_wt |-> @.brier_wt + 1,
                               count    |-> @.count + 1]]
                     ELSE acc1
         IN  apply_submissions(acc2, Tail(subs))

\* _apply_delta
apply_delta(accumulator, delta) ==
    apply_submissions(accumulator, delta.settled_submissions)

\* A policy that never forgets: every entry of the history stays recent.
recent_for_ever(history, t, horizon) == history

\* The entries of the recompute history younger than a horizon.
recent(history, t, horizon) ==
    SelectSeq(history, LAMBDA e : t - e.timestamp < horizon)

\* An accept branch that forgets to reset the delta cursor.
accept_keeping_cursor(s, new_epoch, record, t) ==
    [s EXCEPT !.epoch = new_epoch,
              !.accumulator = <<>>,
              !.recompute_history =
                  IF record # None
                  THEN Append(@, [epoch         |-> new_epoch,
                                  timestamp     |-> t,
                                  reason_code   |-> record[1].reason_code,
                                  reason_detail |-> record[1].reason_detail])
                  ELSE @]

\* The accept branch of _handle_epoch_change: the state it leaves.
accept_epoch(s, new_epoch, record, t) ==
    [s EXCEPT !.epoch = new_epoch,
              !.accumulator = <<>>,
              !.last_delta_id = 0,
              !.last_delta_ts = 0,
              !.recompute_history =
                  IF record # None
                  THEN Append(@, [epoch         |-> new_epoch,
                                  timestamp     |-> t,
                                  reason_code   |-> record[1].reason_code,
                                  reason_detail |-> record[1].reason_detail])
                  ELSE @]

\* A state machine that resets the accumulators before it consults the rate
\* policy, so that a paused change has already emptied them.
handle_epoch_change_reset_first(s, cp, t) ==
    LET new_epoch == cp.manifest.checkpoint_epoch
        record == cp.manifest.recompute_record
        cleared == [s EXCEPT !.accumulator = <<>>, !.last_delta_id = 0,
                             !.last_delta_ts = 0]
    IN  IF record # None /\ record[1].reason_detail = ""
        THEN [status |-> "rejected", reason |-> "empty_reason_detail",
              sync |-> s, saved |-> FALSE]
        ELSE IF Len(recent(s.recompute_history, t, DaySeconds)) >= max_epoch_bumps_per_day
        THEN [status |-> "paused", reason |-> "RECOMPUTE_RATE_EXCEEDED_DAILY",
              sync |-> cleared, saved |-> FALSE]
        ELSE IF Len(recent(s.recompute_history, t, WeekSeconds)) >= max_epoch_bumps_per_week
        THEN [status |-> "paused", reason |-> "RECOMPUTE_RATE_EXCEEDED_WEEKLY",
              sync |-> cleared, saved |-> FALSE]
        ELSE [status |-> "accepted", reason |-> "",
              sync |-> accept_epoch(s, new_epoch, record, t), saved |-> TRUE]

\* _handle_epoch_change(cp) at time t: the result, the state it leaves and
\* whether _save_state ran.
handle_epoch_change(s, cp, t) ==
    LET new_epoch == cp.manifest.checkpoint_epoch
        record == cp.manifest.recompute_record
        recent_day == recent(s.recompute_history, t, DaySeconds)
        recent_week == recent(s.recompute_history, t, WeekSeconds)
    IN  IF record # None /\ record[1].reason_detail = ""
        THEN [status |-> "rejected", reason |-> "empty_reason_detail",
              sync |-> s, saved |-> FALSE]
        ELSE IF Len(recent_day) >= max_epoch_bumps_per_day
        THEN [status |-> "paused", reason |-> "RECOMPUTE_RATE_EXCEEDED_DAILY",
              sync |-> s, saved |-> FALSE]
        ELSE IF Len(recent_week) >= max_epoch_bumps_per_week
        THEN [status |-> "paused", reason |-> "RECOMPUTE_RATE_EXCEEDED_WEEKLY",
              sync |-> s, saved |-> FALSE]
        ELSE [status |-> "accepted", reason |-> "",
              sync |-> accept_epoch(s, new_epoch, record, t), saved |-> TRUE]

\* A sync cycle that takes every listed id as new.
new_ids_unfiltered(s, delta_ids) == delta_ids

\* The filter of sync_cycle that drops the already processed delta ids.
new_ids(s, delta_ids) ==
    IF s.last_delta_id # 0
    THEN SelectSeq(delta_ids, LAMBDA d : d > s.last_delta_id)
    ELSE delta_ids

\* A delta loop without the epoch test.
stale_epoch_never(s, delta) == FALSE

\* The epoch test of the delta loop: a delta of another epoch is skipped.
stale_epoch(s, delta) == delta.manifest.checkpoint_epoch # s.epoch

RECURSIVE delta_loop(_, _, _)
\* The loop of sync_cycle over new_ids; get[id] is what store.get_delta(id)
\* answers.  r carries the state, latest_deltas and the ids applied.
delta_loop(r, ids, get) ==
    IF ids = <<>> THEN r
    ELSE LET delta_id == Head(ids)
             got == get[delta_id]
         IN  IF got = None \/ stale_epoch(r.sync, got[1])
             THEN delta_loop(r, Tail(ids), get)
             ELSE delta_loop(
                    [sync |-> [r.sync EXCEPT
                                 !.accumulator = apply_delta(@, got[1]),
                                 !.last_delta_id = delta_id,
                                 !.last_delta_ts = got[1].manifest.window_end],
                     latest_deltas |-> Append(r.latest_deltas, got[1])],
                    Tail(ids), get)

\* ------------------------------------------------ WeightVerificationHandler
RECURSIVE SumSeq(_)
SumSeq(q) == IF q = <<>> THEN 0 ELSE Head(q) + SumSeq(Tail(q))

\* np.dot of two vectors of equal length.
dot(a, b) == SumSeq([i \in 1..Len(a) |-> a[i] * b[i]])

\* The outcome of a market in a delta: next(o for o in settled_outcomes if
\* o.market_id == market_id), None when there is none.
matching_outcome(delta, market_id) ==
    LET hits == SelectSeq(delta.settled_outcomes, LAMBDA o : o.market_id = market_id)
    IN  IF hits = <<>> THEN None ELSE Some(Head(hits))

\* Step 2 of on_cycle for one submission: <<checked, mismatched>> as 0/1.
brier_check(delta, sub) ==
    LET outcome == matching_outcome(delta, sub.market_id)
    IN  IF sub.brier = None THEN <<0, 0>>
        ELSE IF outcome = None \/ outcome[1].result = None THEN <<0, 0>>
        ELSE LET actual == IF sub.side = outcome[1].result[1] THEN 100 ELSE 0
                 expected_brier == (sub.imp_prob - actual) * (sub.imp_prob - actual)
                 diff == IF expected_brier >= sub.brier[1]
                         THEN expected_brier - sub.brier[1]
                         ELSE sub.brier[1] - expected_brier
             IN  <<1, IF diff > BrierTolerance THEN 1 ELSE 0>>

\* Step 2 of on_cycle over all deltas: [checks, mismatches].
brier_counts(deltas) ==
    LET per(delta) == [i \in 1..Len(delta.settled_submissions) |->
                          brier_check(delta, delta.settled_submissions[i])]
        checks(delta) == SumSeq([i \in 1..Len(delta.settled_submissions) |-> per(delta)[i][1]])
        misses(delta) == SumSeq([i \in 1..Len(delta.settled_submissions) |-> per(delta)[i][2]])
    IN  [brier_checks     |-> SumSeq([k \in 1..Len(deltas) |-> checks(deltas[k])]),
         brier_mismatches |-> SumSeq([k \in 1..Len(deltas) |-> misses(deltas[k])])]

\* our_vec of step 5: zeros(n_neurons) with our_vec[uid] = w for every
\* (uid, w) of the weight result with uid < n_neurons.  uids count from 0.
our_vector(weight_result, n_neurons) ==
    [i \in 1..n_neurons |->
        LET hits == SelectSeq(weight_result, LAMBDA p : p.uid = i - 1)
        IN  IF hits = <<>> THEN 0 ELSE hits[Len(hits)].w]

\* cosine_sim >= 1 - tolerance for two non-negative vectors of non-zero norm:
\* dot / (norm_a * norm_b) >= (Den - Num) / Den, squared to stay in integers.
cosine_within_tolerance(a, b) ==
    ToleranceDen * ToleranceDen * dot(a, b) * dot(a, b)
        >= (ToleranceDen - ToleranceNum) * (ToleranceDen - ToleranceNum)
           * dot(a, a) * dot(b, b)

\* Step 5 of on_cycle: the comparison with the primary's on-chain weights.
\* match and cosine_sim start as True and 1.0 and are assigned only on the
\* path that reaches the cosine.  computed: the cosine was computed.
compare_on_chain(weight_result, env) ==
    LET our_vec == our_vector(weight_result, env.n_neurons)
        initial == [match |-> TRUE, computed |-> FALSE, within |-> FALSE,
                    comparison_error |-> FALSE]
    IN  IF env.comparison_raises
        THEN [initial EXCEPT !.comparison_error = TRUE]
        ELSE IF ~env.primary_in_metagraph THEN initial
        ELSE IF env.on_chain = None THEN initial
        ELSE IF Len(env.on_chain[1]) # Len(our_vec) THEN initial
        ELSE IF dot(our_vec, our_vec) > 0 /\ dot(env.on_chain[1], env.on_chain[1]) > 0
        THEN [match    |-> cosine_within_tolerance(our_vec, env.on_chain[1]),
              computed |-> TRUE,
              within   |-> cosine_within_tolerance(our_vec, env.on_chain[1]),
              comparison_error |-> FALSE]
        ELSE initial

\* Step 6 of on_cycle: whether subtensor.set_weights is called.
calls_set_weights(match, weight_result) == match /\ weight_result # <<>>

NoCall ==
    [set_weights |-> FALSE, computed |-> FALSE, within |-> FALSE,
     match |-> FALSE, brier_checks |-> 0, brier_mismatches |-> 0]

\* WeightVerificationHandler.on_cycle on a context (checkpoint, deltas) in a
\* chain environment env: the TaskResult status, whether it raised, and what
\* it did.
on_cycle(checkpoint, deltas, env) ==
    IF checkpoint = None
    THEN [status |-> "skip", raised |-> FALSE] @@ NoCall
    ELSE IF checkpoint[1].accumulators = <<>>
    THEN [status |-> "skip", raised |-> FALSE] @@ NoCall
    ELSE IF env.handler_raises
    THEN [status |-> "error", raised |-> TRUE] @@ NoCall
    ELSE LET counts == brier_counts(deltas)
             cmp == compare_on_chain(env.weight_result, env)
         IN  [status           |-> IF cmp.match THEN "pass" ELSE "fail",
              raised           |-> FALSE,
              set_weights      |-> calls_set_weights(cmp.match, env.weight_result),
              computed         |-> cmp.computed,
              within           |-> cmp.within,
              match            |-> cmp.match,
              brier_checks     |-> counts.brier_checks,
              brier_mismatches |-> counts.brier_mismatches]

\* PluginRegistry.dispatch with the one handler the auditor registers: its
\* result, or a result of status error when it raised.
dispatch(checkpoint, deltas, env) ==
    LET result == on_cycle(checkpoint, deltas, env)
    IN  <<IF result.raised THEN [result EXCEPT !.status = "error"] ELSE result>>

\* -------------------------------------------------------------- environment
\* Vectors of a given length with entries 0..MaxWeight.
Vectors(n) == [1..n -> 0..MaxWeight]

\* What compute_weights can return for n neurons: the (uid, weight) pairs of
\* the non-zero entries of a dense vector, by ascending uid.
WeightResults(n) ==
    { LET nz == SelectSeq([i \in 1..n |-> i], LAMBDA i : v[i] > 0)
      IN  [k \in 1..Len(nz) |-> [uid |-> nz[k] - 1, w |-> v[nz[k]]]]
      : v \in Vectors(n) }

\* The chain environments a plugin run can meet: the neuron count, the
\* locally computed weights, whether the primary's hotkey is in the
\* metagraph, its on-chain weight row (None: the metagraph has no W), and
\* whether the comparison or the handler itself raises.
Envs ==
    UNION { [n_neurons            : {n},
             weight_result        : WeightResults(n),
             primary_in_metagraph : BOOLEAN,
             on_chain             : {None} \cup { Some(v) : v \in UNION { Vectors(m) : m \in 1..MaxNeurons } },
             comparison_raises    : BOOLEAN,
             handler_raises       : BOOLEAN] : n \in 1..MaxNeurons }

\* The environments the cycle model draws from: weights that match the
\* primary's on-chain row, and weights that diverge from it.
MatchingEnv ==
    [n_neurons |-> 2, weight_result |-> <<[uid |-> 1, w |-> 1]>>,
     primary_in_metagraph |-> TRUE, on_chain |-> Some(<<0, 1>>),
     comparison_raises |-> FALSE, handler_raises |-> FALSE]

CycleEnvs == { MatchingEnv, [MatchingEnv EXCEPT !.on_chain = Some(<<1, 0>>)] }

\* The checkpoints the store hands to a running auditor.
CycleCheckpoints ==
    { export_checkpoint(e, r, k) : e \in Epochs, r \in RecomputeRecords,
                                   k \in {"good", "tampered"} }

\* An epoch other than e.
OtherEpoch(e) == (e % MaxEpoch) + 1

\* What the store answers about one delta id during a sync cycle: list_deltas
\* does not list it; it is listed and get_delta returns nothing, a delta of
\* another epoch, a delta of the auditor's epoch, or such a delta tampered.
AnswerKinds == {"unlisted", "missing", "stale", "good", "tampered"}

StoreAnswers == [DeltaIds -> AnswerKinds]

\* store.get_delta(id) under an answer, for an auditor at epoch e.
get_delta(answers, id, e) ==
    CASE answers[id] = "stale"    -> Some(export_delta(id, OtherEpoch(e), "good"))
      [] answers[id] = "good"     -> Some(export_delta(id, e, "good"))
      [] answers[id] = "tampered" -> Some(export_delta(id, e, "tampered"))
      [] OTHER                    -> None

\* list_deltas: the listed ids, ascending.
listed_ids(answers) ==
    SelectSeq([i \in 1..MaxDelta |-> i], LAMBDA id : answers[id] # "unlisted")

\* ------------------------------------------------------------------- state
VARIABLES
    sync,             \* LedgerSync: epoch, last_delta_id, last_delta_ts,
                      \* accumulator, recompute_history
    latest_deltas,    \* LedgerSync.latest_deltas, the deltas sync_cycle returns
    disk,             \* auditor_state.json: None or the saved document
    now,              \* time.time()
    pc,               \* where the runtime is: idle, fetched, synced, done
    cp,               \* _cycle / sync_cycle: the fetched checkpoint, until the
                      \* cycle has verified it
    change_result,    \* sync_cycle: result of _handle_epoch_change, if called
    cp_result,        \* _cycle: result of verify_checkpoint, if reached
    verified_deltas,  \* _cycle: the deltas that passed verify_delta
    results,          \* _cycle: what dispatch returned, None if not run
    pre,              \* sync and disk as they were when the cycle began
    contrib,          \* the deltas applied since the accumulator was last emptied
    accepted_at,      \* times of the latest accepted epoch changes
    plugin_input,     \* a context and environment for a plugin run on its own
    plugin_result,    \* what dispatch returned for it
    exporter,         \* LedgerExporter: the ledger_state row and the bump_epoch
                      \* calls in flight
    policy,           \* AccessPolicy: _challenges, _tokens, _request_log
    metagraph,        \* AccessPolicy.metagraph
    test_mode,        \* whether SPARKET_TEST_MODE is set in the environment
    reply,            \* the request the HTTP server served last and its response
    audit,            \* what the access policy has done so far: nonces and
                      \* tokens issued, nonces answered, the order of last use
                      \* of the tokens, the requests allowed, the times of the
                      \* check_rate_limit calls, the clock steps
    saving,           \* _save_state: the temporary file, the step reached, and
                      \* the state that was saved last
    verified,         \* ManifestVerifier: the window verified last and the
                      \* result returned for it
    registry,         \* PluginRegistry: the handlers in order of registration,
                      \* the on_cycle calls made and the results of dispatch
    runtime,          \* AuditorRuntime.run: _running, consecutive_errors, where
                      \* the loop is, and what has happened to it so far
    client,           \* HTTPLedgerStore: the cached token, where _get is, and
                      \* what the request has met so far
    means,            \* the rolling score job and the exporter on one miner: the scored
                      \* submissions, the row, the published entry, the derived one
    redaction,        \* redact: the row and allowlist of the last call, its result, and the
                      \* result of redacting the result
    weighing,         \* compute_weights: the metrics and chain parameters of two calls, the
                      \* second on the metrics in another order, and what each returned
    recompute,        \* the recompute route on its own: the epoch row, the checkpoints in
                      \* the store, the last answer of the route, and the latest checkpoint fetched since
    store             \* FilesystemStore: the window directories under
                      \* ledger/, and the put that is writing one

vars == <<sync, latest_deltas, disk, now, pc, cp, change_result, cp_result,
          verified_deltas, results, pre, contrib, accepted_at,
          plugin_input, plugin_result, exporter,
          policy, metagraph, test_mode, reply, audit, store, saving,
          verified, registry, runtime, client,
          means,
          redaction,
          weighing,
          recompute>>

plugin_vars == <<plugin_input, plugin_result>>

\* The state of the primary's ledger services, which the auditor never touches.
server_vars == <<exporter, policy, metagraph, test_mode, reply, audit>>

\* The state of the access policy and of the HTTP server in front of it.
auth_vars == <<policy, metagraph, test_mode, reply, audit>>

\* The state of the components that are modelled on their own.
aux_vars == <<store, saving, verified, registry, runtime, client,
             means,
             redaction,
             weighing,
             recompute>>

\* FilesystemStore.__init__ on an empty data directory: no window directory,
\* no put in progress, no put made.
InitStore == [checkpoints |-> <<>>, deltas |-> <<>>, writing |-> None, puts |-> 0]

\* No _save_state has run in this process or an earlier one.
InitSaving == [tmp |-> None, step |-> "idle", target |-> None, last |-> None,
               fresh |-> TRUE]

\* PluginRegistry.__init__: no handler.
InitRegistry == [handlers |-> <<>>, invoked |-> <<>>, results |-> None]

\* AuditorRuntime.__init__: run() has not begun; no cycle was started, none
\* has raised, stop() was not called.
InitRuntime ==
    [running |-> FALSE, at |-> "new", consecutive_errors |-> 0, ended |-> "",
     cycles |-> 0, streak |-> 0, stop_called |-> FALSE, started_after_stop |-> FALSE]

\* HTTPLedgerStore.__init__: no token, no request made.
InitClient ==
    [token |-> None, fresh |-> FALSE, at |-> "idle", attempt |-> 0, result |-> "",
     requests |-> 0, sent |-> 0, unauthorized |-> 0, reauths |-> 0]

\* No rolling score was computed and no accumulator entry exported.
InitMeans == [subs |-> <<>>, row |-> None, entry |-> None, derived |-> None]

\* redact has not been called.
InitRedaction == [row |-> None, allowlist |-> "", out |-> None, again |-> None]

\* compute_weights has not been called.
InitWeighing == [call |-> None, result |-> None, reordered |-> None]

\* The primary at epoch 1 with an empty store: no POST /ledger/recompute was
\* answered, and no checkpoint was fetched.
InitRecompute == [epoch |-> 1, day |-> 1, stored |-> <<>>, answered |-> None, fetched |-> None]

\* None of the components modelled on their own has acted.
AuxIdle ==
    /\ store = InitStore
    /\ saving = InitSaving
    /\ verified = None
    /\ registry = InitRegistry
    /\ runtime = InitRuntime
    /\ client = InitClient
    /\ means = InitMeans
    /\ redaction = InitRedaction
    /\ weighing = InitWeighing
    /\ recompute = InitRecompute

\* The bump_epoch calls the primary serves.
Calls == 1..MaxCalls

\* A bump_epoch call that has not begun: where it stands, the highest epoch
\* exported when it began, the epoch it read, the epoch it writes and puts
\* in its recompute record, and the epoch export_checkpoint read for the
\* manifest.
IdleCall == [pc |-> "idle", floor |-> 0, old_epoch |-> 0, new_epoch |-> 0, epoch |-> 0]

\* The exporter on a ledger_state row at epoch e: the durable epoch, the
\* epoch the row began with, the highest epoch of the checkpoints exported
\* so far (0: none) and the calls.
InitExporter(e) ==
    [epoch |-> e, start |-> e, exported_max |-> 0, calls |-> [c \in Calls |-> IdleCall]]

Hotkeys == {"hk_a", "hk_b"}

\* AccessPolicy.__init__: no challenge, no token, no request logged.
InitPolicy ==
    [challenges |-> {}, tokens |-> <<>>, request_log |-> [h \in Hotkeys |-> <<>>]]

\* No request has been served.
NoReply ==
    [route |-> "none", status |-> 0, hotkey |-> "", presented |-> <<>>,
     body |-> <<>>, read |-> FALSE]

NoAudit ==
    [nonces |-> 0, answered |-> {}, issued |-> <<>>, recency |-> <<>>,
     allowed |-> [h \in Hotkeys |-> <<>>], calls |-> [h \in Hotkeys |-> <<>>],
     requests |-> 0, ticks |-> 0]

AuthIdle ==
    /\ policy = InitPolicy
    /\ metagraph = None
    /\ test_mode = FALSE
    /\ reply = NoReply
    /\ audit = NoAudit

\* No request has reached the primary's ledger services.
ServerIdle == exporter = InitExporter(1) /\ AuthIdle /\ AuxIdle

\* The part of the state that belongs to the auditor process.
auditor_vars == <<sync, latest_deltas, disk, pc, cp, change_result, cp_result,
                  verified_deltas, results, pre, contrib, accepted_at>>

NoPluginInput == [checkpoint |-> None, deltas |-> <<>>, env |-> MatchingEnv]

\* The runtime right after LedgerSync is constructed with in-memory state s
\* loaded from the state file (None: no state file), the accumulator of s
\* being made of the deltas applied.
Constructed(s, file, applied) ==
    /\ sync = s
    /\ latest_deltas = <<>>
    /\ disk = file
    /\ now = 0
    /\ pc = "idle"
    /\ cp = None
    /\ change_result = None
    /\ cp_result = None
    /\ verified_deltas = <<>>
    /\ results = None
    /\ pre = [sync |-> s, disk |-> file]
    /\ contrib = applied
    /\ accepted_at = <<>>

Init ==
    /\ Constructed(InitSync, None, <<>>)
    /\ plugin_input = NoPluginInput
    /\ plugin_result = None
    /\ ServerIdle

\* The last k entries of a sequence.
LastK(q, k) == IF Len(q) <= k THEN q ELSE SubSeq(q, Len(q) - k + 1, Len(q))

\* ------------------------------------------------------------------ actions
\* sync_cycle up to its first return: store.get_latest_checkpoint answers
\* None, _cycle logs no_checkpoint and returns.
FetchNoCheckpoint ==
    /\ pc = "idle"
    /\ pre' = [sync |-> sync, disk |-> disk]
    /\ latest_deltas' = <<>>
    /\ cp' = None
    /\ pc' = "done"
    /\ UNCHANGED <<sync, disk, now, change_result, cp_result, verified_deltas,
                   results, contrib, accepted_at, plugin_vars, server_vars, aux_vars>>

\* sync_cycle: a checkpoint of the local epoch is fetched.
FetchSameEpoch ==
    /\ pc = "idle"
    /\ \E c \in CycleCheckpoints :
          /\ c.manifest.checkpoint_epoch = sync.epoch
          /\ cp' = Some(c)
    /\ pre' = [sync |-> sync, disk |-> disk]
    /\ latest_deltas' = <<>>
    /\ pc' = "fetched"
    /\ UNCHANGED <<sync, disk, now, change_result, cp_result, verified_deltas,
                   results, contrib, accepted_at, plugin_vars, server_vars, aux_vars>>

\* sync_cycle: the fetched checkpoint c has another epoch and is handed to
\* _handle_epoch_change; rejected and paused return (cp, []) at once.
EpochChangeStep(c) ==
    /\ pc = "idle"
    /\ c.manifest.checkpoint_epoch # sync.epoch
    /\ LET r == handle_epoch_change(sync, c, now)
       IN  /\ cp' = Some(c)
           /\ change_result' = Some([status |-> r.status, reason |-> r.reason])
           /\ sync' = r.sync
           /\ disk' = IF r.saved THEN save_state(r.sync) ELSE disk
           /\ pc' = IF r.status = "accepted" THEN "fetched" ELSE "synced"
           /\ contrib' = IF r.status = "accepted" THEN <<>> ELSE contrib
    /\ pre' = [sync |-> sync, disk |-> disk]
    /\ latest_deltas' = <<>>
    /\ UNCHANGED <<now, cp_result, verified_deltas, results, plugin_vars, server_vars, aux_vars>>

FetchEpochChange ==
    /\ \E c \in CycleCheckpoints : EpochChangeStep(c)
    /\ UNCHANGED accepted_at

\* sync_cycle from list_deltas to its last return: the new ids are fetched,
\* applied in order, and the state is saved.
SyncDeltas ==
    /\ pc = "fetched"
    /\ \E answers \in StoreAnswers :
          LET get == [id \in DeltaIds |-> get_delta(answers, id, sync.epoch)]
              r == delta_loop([sync |-> sync, latest_deltas |-> <<>>],
                              new_ids(sync, listed_ids(answers)), get)
          IN  /\ sync' = r.sync
              /\ latest_deltas' = r.latest_deltas
              /\ contrib' = contrib \o r.latest_deltas
              /\ disk' = save_state(r.sync)
    /\ pc' = "synced"
    /\ UNCHANGED <<now, cp, change_result, cp_result, verified_deltas, results,
                   pre, accepted_at, plugin_vars, server_vars, aux_vars>>

\* A cycle that goes on whatever verify_checkpoint said.
checkpoint_never_refused(result) == FALSE

\* _cycle: "if not cp_result: return".
checkpoint_refused(result) == ~result.valid

\* _cycle: verify_checkpoint fails, the cycle logs the errors and returns.
VerifyReject ==
    /\ pc = "synced"
    /\ checkpoint_refused(verify_checkpoint(cp[1]))
    /\ cp_result' = Some(verify_checkpoint(cp[1]))
    /\ cp' = None
    /\ pc' = "done"
    /\ UNCHANGED <<sync, latest_deltas, disk, now, change_result,
                   verified_deltas, results, pre, contrib, accepted_at, plugin_vars, server_vars, aux_vars>>

\* _cycle: the checkpoint verifies, the deltas are verified one by one and
\* the plugins are dispatched on the checkpoint and the verified deltas.
VerifyDispatch ==
    /\ pc = "synced"
    /\ ~checkpoint_refused(verify_checkpoint(cp[1]))
    /\ cp_result' = Some(verify_checkpoint(cp[1]))
    /\ verified_deltas' = SelectSeq(latest_deltas, LAMBDA d : verify_delta(d).valid)
    /\ \E env \in CycleEnvs :
          results' = Some(dispatch(cp, verified_deltas', env))
    /\ cp' = None
    /\ pc' = "done"
    /\ UNCHANGED <<sync, latest_deltas, disk, now, change_result, pre,
                   contrib, accepted_at, plugin_vars, server_vars, aux_vars>>

\* run: asyncio.sleep(poll_interval) between two cycles.  The next cycle
\* starts with fresh locals; its sync_cycle empties latest_deltas.  The poll
\* interval is short against the day of the rate policy: the clock of the
\* policy moves in Tick.
Sleep ==
    /\ pc = "done"
    /\ pc' = "idle"
    /\ cp' = None
    /\ change_result' = None
    /\ cp_result' = None
    /\ verified_deltas' = <<>>
    /\ results' = None
    /\ latest_deltas' = <<>>
    /\ pre' = [sync |-> sync, disk |-> disk]
    /\ UNCHANGED <<sync, disk, now, contrib, accepted_at, plugin_vars, server_vars, aux_vars>>

Next ==
    \/ FetchNoCheckpoint
    \/ FetchSameEpoch
    \/ FetchEpochChange
    \/ SyncDeltas
    \/ VerifyReject
    \/ VerifyDispatch
    \/ Sleep

Spec == Init /\ [][Next]_vars

\* ------------------------------------------- the epoch-change state machine
\* The state a run that applied delta 1 at epoch 1 saved and a later run
\* loads: _load_state restores every field of the document.
LoadedSync ==
    [InitSync EXCEPT !.epoch = 1,
                     !.last_delta_id = 1,
                     !.last_delta_ts = 1,
                     !.accumulator = apply_delta(<<>>, export_delta(1, 1, "good"))]

InitEpoch ==
    /\ \/ Constructed(InitSync, None, <<>>)
       \/ Constructed(LoadedSync, save_state(LoadedSync), <<export_delta(1, 1, "good")>>)
    /\ plugin_input = NoPluginInput
    /\ plugin_result = None
    /\ ServerIdle

\* The checkpoints handed to _handle_epoch_change.
EpochCheckpoints ==
    { export_checkpoint(e, r, "good") : e \in Epochs, r \in RecomputeRecords }

\* sync_cycle fetches a checkpoint of another epoch and calls
\* _handle_epoch_change; the times of the accepted changes are kept.
HandleEpochChange ==
    /\ \E c \in EpochCheckpoints : EpochChangeStep(c)
    /\ accepted_at' =
          IF change_result'[1].status = "accepted"
          THEN LastK(Append(accepted_at, now), max_epoch_bumps_per_week + 1)
          ELSE accepted_at

\* The rest of the cycle, which leaves the epoch and the history alone.
EndCycle ==
    /\ pc \in {"fetched", "synced"}
    /\ pc' = "idle"
    /\ cp' = None
    /\ change_result' = None
    /\ pre' = [sync |-> sync, disk |-> disk]
    /\ UNCHANGED <<sync, latest_deltas, disk, now, cp_result, verified_deltas,
                   results, contrib, accepted_at, plugin_vars, server_vars, aux_vars>>

\* A day passes between two cycles.
Tick ==
    /\ pc = "idle"
    /\ now + DaySeconds <= MaxDays * DaySeconds
    /\ now' = now + DaySeconds
    /\ UNCHANGED <<sync, latest_deltas, disk, pc, cp, change_result, cp_result,
                   verified_deltas, results, pre, contrib, accepted_at, plugin_vars, server_vars, aux_vars>>

NextEpoch == HandleEpochChange \/ EndCycle \/ Tick

SpecEpoch == InitEpoch /\ [][NextEpoch]_vars

\* ------------------------------------------------- the plugin run on its own
\* Contexts handed to on_cycle: no checkpoint, a checkpoint without miners,
\* a checkpoint with miners and no delta, one with a sound delta and a delta
\* whose brier was changed, and one with a delta that repeats a market.
\* A delta whose outcomes name market 10 twice: first without a result, then
\* with one.  OutcomeEntry.result is optional and DeltaWindow does not ask
\* for distinct market ids.
repeated_outcome_delta(epoch) ==
    LET subs == DeltaSubmissions(2)
        outs == <<[market_id |-> 10, result |-> None]>> \o DeltaOutcomes(2)
    IN  [manifest |-> SignedManifest("delta", epoch, 2,
                         [settled_submissions |-> compute_section_hash(subs),
                          settled_outcomes    |-> compute_section_hash(outs)],
                         None),
         settled_submissions |-> subs,
         settled_outcomes |-> outs]

PluginContexts ==
    { [checkpoint |-> None, deltas |-> <<>>],
      [checkpoint |-> Some(export_checkpoint(1, None, "good")),
       deltas |-> <<export_delta(1, 1, "good"), repeated_outcome_delta(1)>>],
      [checkpoint |-> Some(export_checkpoint(1, None, "empty")), deltas |-> <<>>],
      [checkpoint |-> Some(export_checkpoint(1, None, "good")), deltas |-> <<>>],
      [checkpoint |-> Some(export_checkpoint(1, None, "good")),
       deltas |-> <<export_delta(1, 1, "good"), export_delta(2, 1, "tampered")>>] }

InitPlugin ==
    /\ Constructed(InitSync, None, <<>>)
    /\ \E c \in PluginContexts, env \in Envs :
          plugin_input = [checkpoint |-> c.checkpoint, deltas |-> c.deltas, env |-> env]
    /\ plugin_result = None
    /\ ServerIdle

\* PluginRegistry.dispatch on the context: WeightVerificationHandler.on_cycle
\* runs once.
RunPlugin ==
    /\ plugin_result = None
    /\ plugin_result' =
          Some(dispatch(plugin_input.checkpoint, plugin_input.deltas, plugin_input.env))
    /\ UNCHANGED <<sync, latest_deltas, disk, now, pc, cp, change_result, cp_result,
                   verified_deltas, results, pre, contrib, accepted_at, plugin_input,
                   server_vars, aux_vars>>

NextPlugin == RunPlugin

SpecPlugin == InitPlugin /\ [][NextPlugin]_vars

\* ------------------------------------------------- LedgerExporter.bump_epoch
InitBump ==
    /\ Constructed(InitSync, None, <<>>)
    /\ plugin_input = NoPluginInput
    /\ plugin_result = None
    /\ \E e \in Epochs : exporter = InitExporter(e)
    /\ AuthIdle
    /\ AuxIdle

Larger(a, b) == IF a >= b THEN a ELSE b

\* A bump_epoch call c begins (a POST /ledger/recompute is being handled).
BumpStart(c) ==
    /\ exporter.calls[c].pc = "idle"
    /\ exporter' = [exporter EXCEPT !.calls[c].pc = "started",
                                    !.calls[c].floor = exporter.exported_max]

\* bump_epoch: old_epoch = await self._get_epoch(); new_epoch = old_epoch + 1.
BumpRead(c) ==
    /\ exporter.calls[c].pc = "started"
    /\ exporter' = [exporter EXCEPT !.calls[c].pc = "read",
                                    !.calls[c].old_epoch = exporter.epoch,
                                    !.calls[c].new_epoch = exporter.epoch + 1]

\* bump_epoch raises before the epoch row is written: the reason code is not
\* in the enum, the RecomputeRecord does not validate, or the write fails.
BumpRaise(c) ==
    /\ exporter.calls[c].pc = "read"
    /\ exporter' = [exporter EXCEPT !.calls[c].pc = "raised"]

\* bump_epoch: await self.database.write(_UPDATE_LEDGER_EPOCH, epoch = new_epoch).
BumpWrite(c) ==
    /\ exporter.calls[c].pc = "read"
    /\ exporter' = [exporter EXCEPT !.calls[c].pc = "written",
                                    !.epoch = exporter.calls[c].new_epoch]

\* export_checkpoint inside bump_epoch: epoch = await self._get_epoch().
ExportRead(c) ==
    /\ exporter.calls[c].pc = "written"
    /\ exporter' = [exporter EXCEPT !.calls[c].pc = "exporting",
                                    !.calls[c].epoch = exporter.epoch]

\* export_checkpoint returns the signed checkpoint: its manifest carries the
\* epoch it read and the record bump_epoch built.
ExportReturn(c) ==
    /\ exporter.calls[c].pc = "exporting"
    /\ exporter' = [exporter EXCEPT
                       !.calls[c].pc = "returned",
                       !.exported_max = Larger(@, exporter.calls[c].epoch)]

\* export_checkpoint raises (a database read, a row that does not validate,
\* the signing): bump_epoch raises with it, after the epoch row was written.
ExportFail(c) ==
    /\ exporter.calls[c].pc \in {"written", "exporting"}
    /\ exporter' = [exporter EXCEPT !.calls[c].pc = "failed"]

\* The periodic export_checkpoint without a recompute record, between the
\* awaits of the calls.
RegularExport ==
    /\ exporter.exported_max < exporter.epoch
    /\ exporter' = [exporter EXCEPT !.exported_max = exporter.epoch]

NextBump ==
    /\ \/ \E c \in Calls : BumpStart(c)
       \/ \E c \in Calls : BumpRead(c)
       \/ \E c \in Calls : BumpRaise(c)
       \/ \E c \in Calls : BumpWrite(c)
       \/ \E c \in Calls : ExportRead(c)
       \/ \E c \in Calls : ExportReturn(c)
       \/ \E c \in Calls : ExportFail(c)
       \/ RegularExport
    /\ UNCHANGED <<auditor_vars, now, plugin_vars, auth_vars, aux_vars>>

SpecBump == InitBump /\ [][NextBump]_vars

\* ------------------------------------------------------------- AccessPolicy
RequestHotkeys == Hotkeys \cup {""}
Nonces == 1..MaxNonces

\* The tokens that can be issued: one more than the table holds.
TokenIds == 1..(max_tokens + 1)
Stakes == {min_stake_threshold - 1, min_stake_threshold, min_stake_threshold + 1}

\* A neuron's entries in the metagraph; None where reading the entry raises.
Neurons ==
    [validator_permit : {None} \cup {Some(b) : b \in BOOLEAN},
     S                : {None} \cup {Some(s) : s \in Stakes}]

EligibleNeuron ==
    [validator_permit |-> Some(TRUE), S |-> Some(min_stake_threshold + 1)]

\* The metagraphs the policy is given: None where reading metagraph.hotkeys
\* raises, else the neurons by hotkey.
Metagraphs ==
    {None} \cup
    {Some(roster) : roster \in
        {f \in UNION {[present -> Neurons] : present \in SUBSET Hotkeys} :
            "hk_b" \in DOMAIN f => f["hk_b"] = EligibleNeuron}}

\* The metagraphs in which hk_a has lost its entry, its validator permit or
\* its stake, while hk_b is as before.
LostMetagraphs ==
    {Some([h \in {"hk_b"} |-> EligibleNeuron])} \cup
    {Some([h \in Hotkeys |-> IF h = "hk_b" THEN EligibleNeuron ELSE lost]) :
        lost \in {[EligibleNeuron EXCEPT !.validator_permit = Some(FALSE)],
                  [EligibleNeuron EXCEPT !.S = Some(min_stake_threshold - 1)]}}

\* _PendingChallenge.expired, _TokenEntry.expired.
expired(entry, ttl, t) == t > entry.created_at + ttl

rejected(reason) == [eligible |-> FALSE, reason |-> reason]

stake_not_above(stake) == stake <= min_stake_threshold

\* check_eligibility: stake < self.min_stake_threshold.
stake_too_low(stake) == stake < min_stake_threshold

\* check_eligibility; the reason is the tuple of the parts of its string.
check_eligibility(mg, test, hotkey) ==
    IF hotkey = "" THEN rejected(<<"empty_hotkey">>)
    ELSE IF mg = None THEN rejected(<<"metagraph_unavailable">>)
    ELSE IF hotkey \notin DOMAIN mg[1] THEN rejected(<<"hotkey_not_found">>)
    ELSE IF test THEN [eligible |-> TRUE, reason |-> <<>>]
    ELSE LET neuron == mg[1][hotkey] IN
         IF neuron.validator_permit = None THEN rejected(<<"vpermit_check_failed">>)
         ELSE IF ~neuron.validator_permit[1] THEN rejected(<<"no_validator_permit">>)
         ELSE IF neuron.S = None THEN rejected(<<"stake_check_failed">>)
         ELSE IF stake_too_low(neuron.S[1])
              THEN rejected(<<"stake_too_low", neuron.S[1], min_stake_threshold>>)
         ELSE [eligible |-> TRUE, reason |-> <<>>]

\* issue_challenge: expired challenges are dropped, the fresh nonce is pending.
issue_challenge(p, hotkey, nonce, t) ==
    [p EXCEPT !.challenges =
        {c \in @ : ~expired(c, ChallengeTTL, t)}
            \cup {[nonce |-> nonce, hotkey |-> hotkey, created_at |-> t]}]

\* What a client sends as signature with a hotkey and a nonce: the signature
\* of that hotkey's key over the nonce, of another key, over another nonce,
\* or None for a string that is no signature.
Signatures(hotkey, nonce) ==
    {None, Some([signer |-> hotkey, payload |-> nonce]),
     Some([signer |-> hotkey, payload |-> (nonce % MaxNonces) + 1])}
    \cup {Some([signer |-> h, payload |-> nonce]) : h \in Hotkeys}

keypair_verify_any(hotkey, nonce, signature) == TRUE

\* bytes.fromhex, bt.Keypair(ss58_address = hotkey).verify(nonce.encode(), sig).
keypair_verify(hotkey, nonce, signature) ==
    /\ signature # None
    /\ signature[1].signer = hotkey
    /\ signature[1].payload = nonce

evict_newest(tokens) ==
    IF Len(tokens) >= max_tokens THEN SubSeq(tokens, 1, max_tokens - 1) ELSE tokens

\* verify_response: while len(self._tokens) >= self.max_tokens: popitem(last=False).
evict(tokens) ==
    IF Len(tokens) >= max_tokens
    THEN SubSeq(tokens, Len(tokens) - max_tokens + 2, Len(tokens))
    ELSE tokens

verify_response_keeping_nonce(p, hotkey, nonce, signature, token, t) ==
    LET found == {c \in p.challenges : c.nonce = nonce}
        popped == [p EXCEPT !.challenges = @ \ found]
        challenge == CHOOSE c \in found : TRUE
    IN  IF \/ found = {}
           \/ expired(challenge, ChallengeTTL, t)
           \/ challenge.hotkey # hotkey
           \/ ~keypair_verify(hotkey, nonce, signature)
        THEN [policy |-> p, token |-> None]
        ELSE [policy |-> [popped EXCEPT !.tokens =
                             Append(evict(@), [token |-> token, hotkey |-> hotkey,
                                               created_at |-> t])],
              token |-> Some(token)]

\* verify_response: the policy afterwards and the token, None on failure.
verify_response(p, hotkey, nonce, signature, token, t) ==
    LET found == {c \in p.challenges : c.nonce = nonce}
        popped == [p EXCEPT !.challenges = @ \ found]
        challenge == CHOOSE c \in found : TRUE
    IN  IF found = {} THEN [policy |-> p, token |-> None]
        ELSE IF expired(challenge, ChallengeTTL, t) THEN [policy |-> popped, token |-> None]
        ELSE IF challenge.hotkey # hotkey THEN [policy |-> popped, token |-> None]
        ELSE IF ~keypair_verify(hotkey, nonce, signature)
             THEN [policy |-> popped, token |-> None]
        ELSE [policy |-> [popped EXCEPT !.tokens =
                             Append(evict(@), [token |-> token, hotkey |-> hotkey,
                                               created_at |-> t])],
              token |-> Some(token)]

\* A sequence without the entries that satisfy Drop.
Without(q, Drop(_)) == SelectSeq(q, LAMBDA x : ~Drop(x))

validate_token_rechecking(p, token, t) ==
    LET at == {i \in 1..Len(p.tokens) : p.tokens[i].token = token}
        entry == p.tokens[CHOOSE i \in at : TRUE]
        others == Without(p.tokens, LAMBDA x : x.token = token)
    IN  IF at = {} THEN [policy |-> p, hotkey |-> None]
        ELSE IF \/ expired(entry, token_ttl, t)
                \/ ~check_eligibility(metagraph, test_mode, entry.hotkey).eligible
             THEN [policy |-> [p EXCEPT !.tokens = others], hotkey |-> None]
        ELSE [policy |-> [p EXCEPT !.tokens = Append(others, entry)],
              hotkey |-> Some(entry.hotkey)]

\* validate_token: the policy afterwards and the hotkey, None if refused.
validate_token(p, token, t) ==
    LET at == {i \in 1..Len(p.tokens) : p.tokens[i].token = token}
        entry == p.tokens[CHOOSE i \in at : TRUE]
        others == Without(p.tokens, LAMBDA x : x.token = token)
    IN  IF at = {} THEN [policy |-> p, hotkey |-> None]
        ELSE IF expired(entry, token_ttl, t)
             THEN [policy |-> [p EXCEPT !.tokens = others], hotkey |-> None]
        ELSE [policy |-> [p EXCEPT !.tokens = Append(others, entry)],
              hotkey |-> Some(entry.hotkey)]

\* A limiter that keeps no record of a call it refuses.
check_rate_limit_allowed_only(p, hotkey, t) ==
    LET pruned == SelectSeq(p.request_log[hotkey], LAMBDA x : t - x < RateWindow)
        allowed == Len(pruned) + 1 <= rate_limit_per_hour
    IN  [policy  |-> [p EXCEPT !.request_log[hotkey] =
                                  IF allowed THEN Append(pruned, t) ELSE pruned],
         allowed |-> allowed]

check_rate_limit_short_window(p, hotkey, t) ==
    LET log == Append(SelectSeq(p.request_log[hotkey],
                                LAMBDA x : t - x < RateWindow - 1), t)
    IN  [policy  |-> [p EXCEPT !.request_log[hotkey] = log],
         allowed |-> Len(log) <= rate_limit_per_hour]

\* check_rate_limit: the policy afterwards and whether the call is allowed.
check_rate_limit(p, hotkey, t) ==
    LET log == Append(SelectSeq(p.request_log[hotkey], LAMBDA x : t - x < RateWindow), t)
    IN  [policy  |-> [p EXCEPT !.request_log[hotkey] = log],
         allowed |-> Len(log) <= rate_limit_per_hour]

\* ----------------------------------------------------------- LedgerHTTPServer
\* The Authorization headers a request can carry: none, a bearer token, or
\* a token under another scheme.
Headers == {<<"", 0>>, <<"Basic ", 1>>, <<"Bearer ", 0>>, <<"Bearer ", 1>>, <<"Bearer ", 2>>}

check_auth_any_scheme(p, header, t) == validate_token(p, header[2], t)

\* _check_auth: None unless the header starts with "Bearer ".
check_auth(p, header, t) ==
    IF header[1] # "Bearer " THEN [policy |-> p, hotkey |-> None]
    ELSE validate_token(p, header[2], t)

DataRoutes == {"checkpoints/latest", "deltas", "deltas/{delta_id}"}

\* What the handler answers once the request is authorized and within the
\* limit: 200 with content, 404 when the store has nothing, 400 for a bad
\* epoch or since parameter.
Answers(route) == IF route = "deltas" THEN {200, 400} ELSE {200, 404}

Reply(route, status, hotkey, presented, body, read) ==
    [route |-> route, status |-> status, hotkey |-> hotkey,
     presented |-> presented, body |-> body, read |-> read]

\* POST /ledger/auth/challenge with a body that is not JSON.
ChallengeInvalidBody ==
    /\ reply' = Reply("auth/challenge", 400, "", <<>>, <<"invalid_body">>, FALSE)
    /\ UNCHANGED <<policy, audit>>

\* POST /ledger/auth/challenge {hotkey}.
HandleChallenge(hotkey) ==
    LET result == check_eligibility(metagraph, test_mode, hotkey)
        nonce == audit.nonces + 1
    IN  IF ~result.eligible
        THEN /\ reply' = Reply("auth/challenge", 403, hotkey, <<>>,
                               <<"ineligible", result.reason>>, FALSE)
             /\ UNCHANGED <<policy, audit>>
        ELSE /\ audit.nonces < MaxNonces
             /\ policy' = issue_challenge(policy, hotkey, nonce, now)
             /\ reply' = Reply("auth/challenge", 200, hotkey, <<>>, <<"nonce", nonce>>, FALSE)
             /\ audit' = [audit EXCEPT !.nonces = nonce]

\* POST /ledger/auth/respond with a body that is not JSON.
RespondInvalidBody ==
    /\ reply' = Reply("auth/respond", 400, "", <<>>, <<"invalid_body">>, FALSE)
    /\ UNCHANGED <<policy, audit>>

\* POST /ledger/auth/respond {hotkey, nonce, signature}. secrets.token_hex
\* cannot be guessed: a client presents a nonce that was issued, or 0 for
\* one that never is.
HandleRespond(hotkey, nonce, signature) ==
    LET token == Len(audit.issued) + 1
        result == verify_response(policy, hotkey, nonce, signature, token, now)
    IN  /\ nonce <= audit.nonces
        /\ policy' = result.policy
        /\ reply' = IF result.token = None
                    THEN Reply("auth/respond", 403, hotkey, <<nonce>>,
                               <<"auth_failed">>, FALSE)
                    ELSE Reply("auth/respond", 200, hotkey, <<nonce, signature>>,
                               <<"token", token>>, FALSE)
        /\ audit' = IF result.token = None
                    THEN [audit EXCEPT !.answered = @ \cup {nonce}]
                    ELSE [audit EXCEPT
                             !.answered = @ \cup {nonce},
                             !.issued = Append(@, [token |-> token, nonce |-> nonce,
                                                   hotkey |-> hotkey, created_at |-> now]),
                             !.recency = Append(@, token)]

\* GET on one of the three data routes: _check_auth, check_rate_limit, then
\* the store.
HandleData(route, header, answer) ==
    LET auth == check_auth(policy, header, now)
        hotkey == auth.hotkey[1]
        rate == check_rate_limit(auth.policy, hotkey, now)
        used == [audit EXCEPT !.recency =
                    Append(Without(@, LAMBDA x : x = header[2]), header[2]),
                              !.calls[hotkey] = Append(@, now)]
    IN  IF auth.hotkey = None
        THEN /\ policy' = auth.policy
             /\ reply' = Reply(route, 401, "", <<>>, <<"unauthorized">>, FALSE)
             /\ UNCHANGED audit
        ELSE /\ audit.requests < MaxRequests
             /\ policy' = rate.policy
             /\ IF ~rate.allowed
                THEN /\ reply' = Reply(route, 429, hotkey, header, <<"rate_limited">>, FALSE)
                     /\ audit' = [used EXCEPT !.requests = @ + 1]
                ELSE /\ reply' = Reply(route, answer, hotkey, header,
                                       IF answer = 200 THEN <<"content">> ELSE <<"error">>,
                                       answer # 400)
                     /\ audit' = [used EXCEPT !.requests = @ + 1,
                                              !.allowed[hotkey] = Append(@, now)]

\* Time passes between two requests, at most so many times.
AuthTick(elapsed, most) ==
    /\ audit.ticks < most
    /\ now' = now + elapsed
    /\ audit' = [audit EXCEPT !.ticks = @ + 1]
    /\ reply' = NoReply
    /\ UNCHANGED <<policy, metagraph>>

\* update_metagraph after a resync.
UpdateMetagraph(m) ==
    /\ m # metagraph
    /\ metagraph' = m
    /\ reply' = NoReply
    /\ UNCHANGED <<policy, audit, now>>

\* AccessPolicy.validate_token called with a token that was issued, or with
\* 0 for one that never is.
ValidateToken(token) ==
    LET result == validate_token(policy, token, now)
    IN  /\ token <= Len(audit.issued)
        /\ policy' = result.policy
        /\ reply' = IF result.hotkey = None
                    THEN Reply("validate_token", 0, "", <<token>>, <<>>, FALSE)
                    ELSE Reply("validate_token", 0, result.hotkey[1], <<token>>, <<>>, FALSE)
        /\ audit' = IF result.hotkey = None THEN audit
                    ELSE [audit EXCEPT !.recency =
                             Append(Without(@, LAMBDA x : x = token), token)]

\* The challenge route under every metagraph, in and out of test mode.
InitChallenge ==
    /\ Constructed(InitSync, None, <<>>)
    /\ plugin_input = NoPluginInput
    /\ plugin_result = None
    /\ exporter = InitExporter(1)
    /\ AuxIdle
    /\ policy = InitPolicy
    /\ metagraph \in Metagraphs
    /\ test_mode \in BOOLEAN
    /\ reply = NoReply
    /\ audit = NoAudit

NextChallenge ==
    /\ \/ ChallengeInvalidBody /\ UNCHANGED <<metagraph, now>>
       \/ \E hotkey \in RequestHotkeys : HandleChallenge(hotkey) /\ UNCHANGED <<metagraph, now>>
       \/ \E elapsed \in {ChallengeTTL, ChallengeTTL + 1} : AuthTick(elapsed, MaxTicks)
    /\ UNCHANGED <<auditor_vars, plugin_vars, exporter, test_mode, aux_vars>>

SpecChallenge == InitChallenge /\ [][NextChallenge]_vars

\* Both hotkeys are eligible.
FullMetagraph == Some([h \in Hotkeys |-> EligibleNeuron])

\* The hotkey that asks for the nonce-th challenge: the hotkeys take turns.
Challenger(nonce) == IF nonce % 2 = 1 THEN "hk_a" ELSE "hk_b"

\* The challenge-response exchange, starting with both hotkeys eligible.
InitAuth ==
    /\ Constructed(InitSync, None, <<>>)
    /\ plugin_input = NoPluginInput
    /\ plugin_result = None
    /\ exporter = InitExporter(1)
    /\ AuxIdle
    /\ policy = InitPolicy
    /\ metagraph = FullMetagraph
    /\ test_mode = FALSE
    /\ reply = NoReply
    /\ audit = NoAudit

NextAuth ==
    /\ \/ HandleChallenge(Challenger(audit.nonces + 1)) /\ UNCHANGED <<metagraph, now>>
       \/ RespondInvalidBody /\ UNCHANGED <<metagraph, now>>
       \/ \E hotkey \in Hotkeys, nonce \in 0..MaxNonces :
             \E signature \in Signatures(hotkey, nonce) :
                HandleRespond(hotkey, nonce, signature) /\ UNCHANGED <<metagraph, now>>
       \/ \E token \in 0..MaxNonces : ValidateToken(token) /\ UNCHANGED <<metagraph, now>>
       \/ \E elapsed \in {ChallengeTTL, ChallengeTTL + 1} : AuthTick(elapsed, MaxTicks)
    /\ UNCHANGED <<auditor_vars, plugin_vars, exporter, test_mode, aux_vars>>

SpecAuth == InitAuth /\ [][NextAuth]_vars

\* The token table, from the state in which the hotkeys have asked at time 0
\* for one challenge more than the table holds tokens, and sign what they
\* were sent.
InitTokens ==
    /\ Constructed(InitSync, None, <<>>)
    /\ plugin_input = NoPluginInput
    /\ plugin_result = None
    /\ exporter = InitExporter(1)
    /\ AuxIdle
    /\ policy = [InitPolicy EXCEPT !.challenges =
                    {[nonce |-> n, hotkey |-> Challenger(n), created_at |-> 0] :
                        n \in TokenIds}]
    /\ metagraph = FullMetagraph
    /\ test_mode = FALSE
    /\ reply = NoReply
    /\ audit = [NoAudit EXCEPT !.nonces = max_tokens + 1]

NextTokens ==
    /\ \/ \E hotkey \in Hotkeys : HandleChallenge(hotkey) /\ UNCHANGED <<metagraph, now>>
       \/ \E nonce \in TokenIds :
             HandleRespond(Challenger(nonce), nonce,
                           Some([signer |-> Challenger(nonce), payload |-> nonce]))
                /\ UNCHANGED <<metagraph, now>>
       \/ \E token \in {0} \cup TokenIds : ValidateToken(token)
                                             /\ UNCHANGED <<metagraph, now>>
       \/ \E elapsed \in {token_ttl, token_ttl + 1} : AuthTick(elapsed, MaxTicks)
       \/ \E m \in LostMetagraphs : UpdateMetagraph(m)
    /\ UNCHANGED <<auditor_vars, plugin_vars, exporter, test_mode, aux_vars>>

SpecTokens == InitTokens /\ [][NextTokens]_vars

\* Each hotkey answered its challenge at time 0 and holds a token.
TokensIssued ==
    /\ policy = [InitPolicy EXCEPT !.tokens =
                    <<[token |-> 1, hotkey |-> "hk_a", created_at |-> 0],
                      [token |-> 2, hotkey |-> "hk_b", created_at |-> 0]>>]
    /\ audit = [NoAudit EXCEPT
                   !.nonces = 2,
                   !.answered = {1, 2},
                   !.issued = <<[token |-> 1, nonce |-> 1, hotkey |-> "hk_a", created_at |-> 0],
                                [token |-> 2, nonce |-> 2, hotkey |-> "hk_b", created_at |-> 0]>>,
                   !.recency = <<1, 2>>]

\* The data routes, from the state in which both hotkeys hold a token.
InitData ==
    /\ Constructed(InitSync, None, <<>>)
    /\ plugin_input = NoPluginInput
    /\ plugin_result = None
    /\ exporter = InitExporter(1)
    /\ AuxIdle
    /\ TokensIssued
    /\ metagraph = FullMetagraph
    /\ test_mode = FALSE
    /\ reply = NoReply

NextData ==
    /\ \/ \E route \in DataRoutes, header \in Headers :
             \E answer \in Answers(route) :
                HandleData(route, header, answer) /\ UNCHANGED <<metagraph, now>>
       \/ \E elapsed \in {1, RateWindow - 1, token_ttl} : AuthTick(elapsed, MaxWindowTicks)
       \/ UpdateMetagraph(Some([h \in {"hk_b"} |-> EligibleNeuron]))
    /\ UNCHANGED <<auditor_vars, plugin_vars, exporter, test_mode, aux_vars>>

SpecData == InitData /\ [][NextData]_vars

\* ---------------------------------------------------------- FilesystemStore
\* The epochs and the days (window bounds, as days of DaySeconds) of the
\* windows that are put.
StoreEpochs == {2, 9, 10}
WindowDays == 1..MaxWindowDay

\* The files of a window directory, in the order put_checkpoint and put_delta
\* write them.
WindowFiles(kind) ==
    IF kind = "checkpoint"
    THEN <<"manifest.json", "accumulators.json.gz", "roster.json.gz", "config.json">>
    ELSE <<"manifest.json", "settled_submissions.json.gz", "settled_outcomes.json.gz">>

\* The directory keys: (epoch, window_end) of a checkpoint, (epoch, window_start,
\* window_end) of a delta.
WindowKeys(kind) ==
    IF kind = "checkpoint"
    THEN {<<e, d>> : e \in StoreEpochs, d \in WindowDays}
    ELSE {<<e, a, b>> \in StoreEpochs \X WindowDays \X WindowDays : a < b}

\* str(n) as character codes.
RECURSIVE Digits(_)
Digits(n) == IF n < 10 THEN <<48 + n>> ELSE Append(Digits(n \div 10), 48 + (n % 10))

\* cp_id without its constant prefix "epoch_": the digits of the epoch, "_",
\* and the date, which has a fixed width and is one element here.
cp_id(key) == Digits(key[1]) \o <<95, key[2]>>

\* a < b as Python compares two strings.
RECURSIVE StrLess(_, _)
StrLess(a, b) ==
    IF b = <<>> THEN FALSE
    ELSE IF a = <<>> THEN TRUE
    ELSE IF Head(a) # Head(b) THEN Head(a) < Head(b)
    ELSE StrLess(Tail(a), Tail(b))

\* The directory is there and has this file.
HasFile(dirs, key, i) == key \in DOMAIN dirs /\ dirs[key][i] # 0

NoWindow == [outcome |-> "none", key |-> <<>>, files |-> <<>>]

Raised == [outcome |-> "raises", key |-> <<>>, files |-> <<>>]

\* _load_checkpoint, _load_delta: every file is read; a missing one raises.
load_window(dirs, key) ==
    IF \E i \in 1..Len(dirs[key]) : dirs[key][i] = 0 THEN Raised
    ELSE [outcome |-> "window", key |-> key, files |-> dirs[key]]

\* get_latest_checkpoint: the directories sorted by name in reverse, the first
\* one that has a manifest is loaded.
get_latest_checkpoint(st) ==
    LET with_manifest == {k \in DOMAIN st.checkpoints : HasFile(st.checkpoints, k, 1)}
    IN  IF with_manifest = {} THEN NoWindow
        ELSE load_window(st.checkpoints,
                         CHOOSE k \in with_manifest :
                            \A other \in with_manifest \ {k} :
                               StrLess(cp_id(other), cp_id(k)))

\* The ids of a set of delta directories in ascending order of the id string
\* "d_<start>_<end>", both dates of fixed width.
RECURSIVE SortedIds(_)
SortedIds(keys) ==
    IF keys = {} THEN <<>>
    ELSE LET first == CHOOSE k \in keys : \A other \in keys \ {k} :
                         \/ k[2] < other[2]
                         \/ k[2] = other[2] /\ k[3] < other[3]
         IN  <<<<first[2], first[3]>>>> \o SortedIds(keys \ {first})

\* list_deltas: the sorted names of the epoch's directories; with since, those
\* with d > "d_<since>".
list_deltas(st, epoch, since) ==
    LET ids == SortedIds({k \in DOMAIN st.deltas : k[1] = epoch})
    IN  IF since = None THEN ids
        ELSE SelectSeq(ids, LAMBDA d : d[1] >= since[1])

\* FilesystemStore.get_delta: the epoch directories are scanned in the order the file system
\* lists them; these are the results that order allows.
store_get_delta(st, id) ==
    LET found == {k \in DOMAIN st.deltas : k[2] = id[1] /\ k[3] = id[2]}
    IN  IF found = {} THEN {NoWindow}
        ELSE {load_window(st.deltas, k) : k \in found}

\* The directories that are left after the others were removed.
Kept(dirs, keys) == IF keys = {} THEN <<>> ELSE [k \in keys |-> dirs[k]]

retention_cutoff(t) == t - retention_days * DaySeconds

\* _prune: checkpoints by the date in their name, deltas by the first date in
\* theirs.
prune(st, t) ==
    LET keep_cp == {k \in DOMAIN st.checkpoints :
                       ~(k[2] * DaySeconds < retention_cutoff(t))}
        keep_d == {k \in DOMAIN st.deltas :
                      ~(k[2] * DaySeconds < retention_cutoff(t))}
    IN  [st EXCEPT !.checkpoints = Kept(st.checkpoints, keep_cp),
                   !.deltas = Kept(st.deltas, keep_d)]

Dirs(st, kind) == IF kind = "checkpoint" THEN st.checkpoints ELSE st.deltas

\* One file of the window is written, over the one that was there.
write_file(st, kind, key, i, version) ==
    LET dirs == Dirs(st, kind)
        old == IF key \in DOMAIN dirs THEN dirs[key]
               ELSE [j \in 1..Len(WindowFiles(kind)) |-> 0]
        new == [k \in DOMAIN dirs \cup {key} |->
                   IF k = key THEN [old EXCEPT ![i] = version] ELSE dirs[k]]
    IN  IF kind = "checkpoint" THEN [st EXCEPT !.checkpoints = new]
        ELSE [st EXCEPT !.deltas = new]

InitStoreSpec ==
    /\ Constructed(InitSync, None, <<>>)
    /\ plugin_input = NoPluginInput
    /\ plugin_result = None
    /\ exporter = InitExporter(1)
    /\ AuthIdle
    /\ AuxIdle

\* put_checkpoint, put_delta begin: the manifest is written.
PutBegin(kind, key) ==
    /\ store.writing = None
    /\ store.puts < MaxPuts
    /\ store' = [write_file(store, kind, key, 1, store.puts + 1) EXCEPT
                    !.puts = @ + 1,
                    !.writing = Some([kind |-> kind, key |-> key, done |-> 1])]
    /\ UNCHANGED now

\* The next section file is written.
PutWrite ==
    /\ store.writing # None
    /\ LET w == store.writing[1] IN
          /\ w.done < Len(WindowFiles(w.kind))
          /\ store' = [write_file(store, w.kind, w.key, w.done + 1, store.puts)
                          EXCEPT !.writing = Some([w EXCEPT !.done = @ + 1])]
    /\ UNCHANGED now

\* All files are written: _prune, and the id is returned.
PutReturn ==
    /\ store.writing # None
    /\ store.writing[1].done = Len(WindowFiles(store.writing[1].kind))
    /\ store' = [prune(store, now) EXCEPT !.writing = None]
    /\ UNCHANGED now

\* The process is interrupted between two file writes, and a store is opened
\* on the same directory afterwards.
PutInterrupted ==
    /\ store.writing # None
    /\ store.writing[1].done < Len(WindowFiles(store.writing[1].kind))
    /\ store' = [store EXCEPT !.writing = None]
    /\ UNCHANGED now

\* Days pass between two puts.
StoreTick ==
    /\ store.writing = None
    /\ now < MaxTicks * (retention_days + 2) * DaySeconds
    /\ now' = now + (retention_days + 2) * DaySeconds
    /\ UNCHANGED store

NextStore ==
    /\ \/ \E kind \in {"checkpoint", "delta"} : \E key \in WindowKeys(kind) :
             PutBegin(kind, key)
       \/ PutWrite
       \/ PutReturn
       \/ PutInterrupted
       \/ StoreTick
    /\ UNCHANGED <<auditor_vars, plugin_vars, server_vars, saving, verified, registry,
                   runtime, client,
                   means,
                   redaction,
                   weighing,
                   recompute>>

SpecStore == InitStoreSpec /\ [][NextStore]_vars

\* ------------------------------------------------------------- state file
\* The fields of a _RecomputeHistoryEntry.
EntryFields == {"epoch", "timestamp", "reason_code", "reason_detail"}

\* json.load fails on the file: it holds the beginning of a document only.
unparseable(content) == "epoch" \notin DOMAIN content

\* _RecomputeHistoryEntry(**e) raises for an entry of the document.
malformed_history(doc) ==
    \E i \in 1..Len(doc.recompute_history) :
        DOMAIN doc.recompute_history[i] # EntryFields

\* _load_state on the state file: no file leaves the fresh state, a saved
\* document restores its five fields; when json.load raises nothing was
\* assigned, and when an entry of the history raises, the three fields
\* assigned before it stay and the epoch is set to 0.
load_state(file) ==
    IF file = None THEN InitSync
    ELSE IF unparseable(file[1]) THEN InitSync
    ELSE IF malformed_history(file[1])
    THEN [epoch             |-> 0,
          last_delta_id     |-> file[1].last_delta_id,
          last_delta_ts     |-> file[1].last_delta_ts,
          accumulator       |-> file[1].accumulator,
          recompute_history |-> <<>>]
    ELSE [epoch             |-> file[1].epoch,
          last_delta_id     |-> file[1].last_delta_id,
          last_delta_ts     |-> file[1].last_delta_ts,
          accumulator       |-> file[1].accumulator,
          recompute_history |-> file[1].recompute_history]

\* A state file that holds the beginning of the document only.
truncated(file) == Some([truncated |-> file[1]])

\* A history entry without its reason_detail.
MalformedEntry == [epoch |-> 1, timestamp |-> 0, reason_code |-> "SCORING_BUG"]

\* The state files an auditor may find at startup: none, one that _save_state
\* wrote, the beginning of one, and one with a malformed history entry.
StateFiles ==
    { None,
      save_state(LoadedSync),
      truncated(save_state(LoadedSync)),
      save_state([LoadedSync EXCEPT !.recompute_history = <<MalformedEntry>>]) }

InitState ==
    /\ \E file \in StateFiles : Constructed(load_state(file), file, <<>>)
    /\ plugin_input = NoPluginInput
    /\ plugin_result = None
    /\ ServerIdle

\* The auditor works between two saves: an epoch change is accepted.
StateAccept ==
    /\ saving.step = "idle"
    /\ sync.epoch < MaxEpoch
    /\ \E record \in {r \in RecomputeRecords : r = None \/ r[1].reason_detail # ""} :
          sync' = accept_epoch(sync, sync.epoch + 1, record, now)
    /\ saving' = [saving EXCEPT !.fresh = FALSE]
    /\ UNCHANGED disk

\* The auditor works between two saves: a delta is applied.
StateApply ==
    /\ saving.step = "idle"
    /\ sync.last_delta_id < MaxDelta
    /\ LET id == sync.last_delta_id + 1 IN
          sync' = [sync EXCEPT
                      !.accumulator = apply_delta(@, export_delta(id, sync.epoch, "good")),
                      !.last_delta_id = id,
                      !.last_delta_ts = id]
    /\ saving' = [saving EXCEPT !.fresh = FALSE]
    /\ UNCHANGED disk

\* A _save_state that opens the state file itself and writes into it.
SaveCreateInPlace ==
    /\ saving.step = "idle"
    /\ saving' = [saving EXCEPT !.step = "created", !.target = Some(sync)]
    /\ disk' = truncated(save_state(sync))
    /\ UNCHANGED sync

\* _save_state begins: the document is built and mkstemp creates an empty
\* temporary file next to the state file.
SaveCreate ==
    /\ saving.step = "idle"
    /\ saving' = [saving EXCEPT !.step = "created",
                                !.target = Some(sync),
                                !.tmp = truncated(save_state(sync))]
    /\ UNCHANGED <<sync, disk>>

\* json.dump has written the whole document to the temporary file.
SaveDump ==
    /\ saving.step = "created"
    /\ saving' = [saving EXCEPT !.step = "dumped",
                                !.tmp = save_state(saving.target[1])]
    /\ UNCHANGED <<sync, disk>>

\* os.rename puts the temporary file in the place of the state file.
SaveRename ==
    /\ saving.step = "dumped"
    /\ disk' = saving.tmp
    /\ saving' = [saving EXCEPT !.step = "idle", !.tmp = None,
                                !.last = saving.target, !.target = None]
    /\ UNCHANGED sync

\* json.dump or os.rename raises: the temporary file is unlinked and the
\* exception goes to the caller.
SaveFail ==
    /\ saving.step \in {"created", "dumped"}
    /\ saving' = [saving EXCEPT !.step = "idle", !.tmp = None, !.target = None]
    /\ UNCHANGED <<sync, disk>>

\* The process ends, at any step of _save_state or between two, and a fresh
\* LedgerSync is constructed on the same directory.
StateRestart ==
    /\ sync' = load_state(disk)
    /\ saving' = [saving EXCEPT !.step = "idle", !.target = None, !.fresh = TRUE]
    /\ UNCHANGED disk

NextState ==
    /\ \/ StateAccept
       \/ StateApply
       \/ SaveCreate
       \/ SaveDump
       \/ SaveRename
       \/ SaveFail
       \/ StateRestart
    /\ UNCHANGED <<latest_deltas, now, pc, cp, change_result, cp_result,
                   verified_deltas, results, pre, contrib, accepted_at,
                   plugin_vars, server_vars, store, verified, registry, runtime,
                   client,
                   means,
                   redaction,
                   weighing,
                   recompute>>

SpecState == InitState /\ [][NextState]_vars

\* --------------------------------------------------- windows to be verified
\* The section names verify_checkpoint and verify_delta pass to _verify.
SectionNames(kind) ==
    IF kind = "checkpoint" THEN <<"roster", "accumulators", "scoring_config">>
    ELSE <<"settled_submissions", "settled_outcomes">>

\* The content_hashes a manifest may carry for a window: for each section the
\* hash of the section, the hash of the section after a change, or none.
ContentHashes(window, kind) ==
    LET names == {SectionNames(kind)[i] : i \in 1..Len(SectionNames(kind))}
    IN  UNION { [present -> {"right", "wrong"}] : present \in SUBSET names }

\* A manifest as any party may build and sign it.
BuiltManifest(window, window_type, schema, hotkey, signer, marks) ==
    LET unsigned ==
            [schema_version   |-> schema,
             window_type      |-> window_type,
             window_end       |-> 1,
             checkpoint_epoch |-> 1,
             content_hashes   |->
                 [n \in DOMAIN marks |->
                     IF marks[n] = "right" THEN compute_section_hash(window[n])
                     ELSE <<"sha256", window[n], "changed">>],
             primary_hotkey   |-> hotkey,
             signature        |-> None,
             recompute_record |-> None]
    IN  [unsigned EXCEPT !.signature = IF signer = "" THEN None
                                       ELSE sign_manifest(unsigned, signer)]

\* The windows handed to the verifier: the sections of an exported window
\* under every manifest above.
BuiltWindows(kind) ==
    LET exported == IF kind = "checkpoint" THEN export_checkpoint(1, None, "good")
                    ELSE export_delta(1, 1, "good")
    IN  { [exported EXCEPT !.manifest =
              BuiltManifest(exported, window_type, schema, hotkey, signer, marks)] :
          window_type \in {"checkpoint", "delta"},
          schema \in {LEDGER_SCHEMA_VERSION, LEDGER_SCHEMA_VERSION + 1},
          hotkey \in {ExpectedPrimaryHotkey, "other_hk"},
          signer \in {ExpectedPrimaryHotkey, "other_hk", ""},
          marks \in ContentHashes(exported, kind) }

InitVerify ==
    /\ Constructed(InitSync, None, <<>>)
    /\ plugin_input = NoPluginInput
    /\ plugin_result = None
    /\ ServerIdle

\* verify_checkpoint(cp) is called.
VerifyCheckpoint ==
    \E window \in BuiltWindows("checkpoint") :
        verified' = Some([window |-> window, kind |-> "checkpoint",
                          result |-> verify_checkpoint(window)])

\* verify_delta(delta) is called.
VerifyDelta ==
    \E window \in BuiltWindows("delta") :
        verified' = Some([window |-> window, kind |-> "delta",
                          result |-> verify_delta(window)])

NextVerify ==
    /\ \/ VerifyCheckpoint
       \/ VerifyDelta
    /\ UNCHANGED <<auditor_vars, now, plugin_vars, server_vars, store, saving, registry,
                   runtime, client,
                   means,
                   redaction,
                   weighing,
                   recompute>>

SpecVerify == InitVerify /\ [][NextVerify]_vars

\* ----------------------------------------------------------- PluginRegistry
\* The handlers that may be registered: a name, a version, and what on_cycle
\* does: it returns a TaskResult of some status or raises an Exception.
HandlerNames == 1..MaxHandlers

Handlers ==
    [name : HandlerNames, version : {"1.0.0"},
     does : {"pass", "fail", "error", "raises"}]

\* handler.on_cycle(context) when it returns.
handler_result(handler) ==
    [plugin_name |-> handler.name, plugin_version |-> handler.version,
     status |-> handler.does, evidence |-> ""]

\* The TaskResult dispatch builds for a handler that raised.
error_result(handler) ==
    [plugin_name |-> handler.name, plugin_version |-> handler.version,
     status |-> "error", evidence |-> "error"]

RECURSIVE dispatch_until_raise(_)
\* A dispatch whose loop ends at the first handler that raises.
dispatch_until_raise(handlers) ==
    IF handlers = <<>> THEN [results |-> <<>>, invoked |-> <<>>]
    ELSE LET handler == Head(handlers)
             rest == dispatch_until_raise(Tail(handlers))
         IN  IF handler.does = "raises"
             THEN [results |-> <<error_result(handler)>>, invoked |-> <<handler.name>>]
             ELSE [results |-> <<handler_result(handler)>> \o rest.results,
                   invoked |-> <<handler.name>> \o rest.invoked]

RECURSIVE dispatch_handlers(_)
\* PluginRegistry.dispatch over self._handlers.items(): the results and the
\* on_cycle calls made, in order.
dispatch_handlers(handlers) ==
    IF handlers = <<>> THEN [results |-> <<>>, invoked |-> <<>>]
    ELSE LET handler == Head(handlers)
             rest == dispatch_handlers(Tail(handlers))
         IN  [results |-> <<IF handler.does = "raises" THEN error_result(handler)
                            ELSE handler_result(handler)>> \o rest.results,
              invoked |-> <<handler.name>> \o rest.invoked]

InitRegistrySpec ==
    /\ Constructed(InitSync, None, <<>>)
    /\ plugin_input = NoPluginInput
    /\ plugin_result = None
    /\ ServerIdle

\* register(handler): a name that is registered already raises ValueError.
Register(handler) ==
    /\ registry.results = None
    /\ \A i \in 1..Len(registry.handlers) : registry.handlers[i].name # handler.name
    /\ registry' = [registry EXCEPT !.handlers = Append(@, handler)]

\* dispatch(context) is called.
Dispatch ==
    /\ registry.results = None
    /\ LET run == dispatch_handlers(registry.handlers) IN
          registry' = [registry EXCEPT !.results = Some(run.results),
                                       !.invoked = run.invoked]

NextRegistry ==
    /\ \/ \E handler \in Handlers : Register(handler)
       \/ Dispatch
    /\ UNCHANGED <<auditor_vars, now, plugin_vars, server_vars, store, saving, verified,
                   runtime, client,
                   means,
                   redaction,
                   weighing,
                   recompute>>

SpecRegistry == InitRegistrySpec /\ [][NextRegistry]_vars

\* ------------------------------------------------------- AuditorRuntime.run
InitRun ==
    /\ Constructed(InitSync, None, <<>>)
    /\ plugin_input = NoPluginInput
    /\ plugin_result = None
    /\ ServerIdle

\* The loop starts a cycle: the ghost fields count it and note whether stop()
\* had been called before.
start_cycle(r) ==
    [r EXCEPT !.at = "cycle",
              !.cycles = @ + 1,
              !.started_after_stop = @ \/ r.stop_called]

\* The loop is left.
leave(r, why) == [r EXCEPT !.at = "returned", !.running = FALSE, !.ended = why]

\* run() begins: _running is set, the counter is 0, and the loop condition
\* holds.
RunBegin ==
    /\ runtime.at = "new"
    /\ runtime' = start_cycle([runtime EXCEPT !.running = TRUE,
                                              !.consecutive_errors = 0])

\* A cycle that returns and leaves the counter as it is.
CycleReturnsKeepingCount ==
    /\ runtime.at = "cycle"
    /\ runtime' = [runtime EXCEPT !.at = "sleep", !.streak = 0]

\* _cycle() returns: the counter is reset and the loop sleeps for the poll
\* interval.
CycleReturns ==
    /\ runtime.at = "cycle"
    /\ runtime' = [runtime EXCEPT !.at = "sleep", !.consecutive_errors = 0,
                                  !.streak = 0]

\* _cycle() raises an Exception: the counter goes up, and the loop is left at
\* max_errors or sleeps before the next cycle.
CycleRaises ==
    /\ runtime.at = "cycle"
    /\ LET counted == [runtime EXCEPT !.consecutive_errors = @ + 1,
                                      !.streak = @ + 1]
       IN  runtime' = IF counted.consecutive_errors >= max_errors
                      THEN leave(counted, "too_many_errors")
                      ELSE [counted EXCEPT !.at = "error_sleep"]

\* A sleep ends and the loop condition is evaluated.
SleepEnds ==
    /\ runtime.at \in {"sleep", "error_sleep"}
    /\ runtime.running => runtime.cycles < MaxCycles
    /\ runtime' = IF runtime.running THEN start_cycle(runtime)
                  ELSE leave(runtime, "stopped")

\* The task is cancelled: CancelledError ends the loop from a cycle and from
\* the poll sleep, and leaves run() as an exception from the sleep after an
\* error.
RunCancelled ==
    /\ runtime.at \in {"cycle", "sleep", "error_sleep"}
    /\ runtime' = IF runtime.at = "error_sleep"
                  THEN [runtime EXCEPT !.at = "raised", !.ended = "cancelled"]
                  ELSE leave(runtime, "cancelled")

\* stop() is called, by the signal handler or by another caller.
RunStop ==
    /\ runtime.at \notin {"returned", "raised"}
    /\ runtime' = [runtime EXCEPT !.running = FALSE, !.stop_called = TRUE]

NextRun ==
    /\ \/ RunBegin
       \/ CycleReturns
       \/ CycleRaises
       \/ SleepEnds
       \/ RunCancelled
       \/ RunStop
    /\ UNCHANGED <<auditor_vars, now, plugin_vars, server_vars, store, saving, verified,
                   registry, client,
                   means,
                   redaction,
                   weighing,
                   recompute>>

SpecRun == InitRun /\ [][NextRun]_vars

\* ---------------------------------------------------------- HTTPLedgerStore
InitClientSpec ==
    /\ Constructed(InitSync, None, <<>>)
    /\ plugin_input = NoPluginInput
    /\ plugin_result = None
    /\ ServerIdle

\* The for loop of _get goes to its next attempt, or is left with
\* ConnectionError("Max retries exceeded") after the last one.
next_attempt(c) ==
    IF c.attempt + 1 < max_retries
    THEN [c EXCEPT !.attempt = @ + 1, !.at = "auth"]
    ELSE [c EXCEPT !.at = "done", !.result = "Max retries exceeded"]

\* except httpx.TransportError: raised again on the last attempt, else the
\* loop sleeps and goes on.
transport_error(c) ==
    IF c.attempt = max_retries - 1
    THEN [c EXCEPT !.at = "done", !.result = "TransportError"]
    ELSE next_attempt(c)

\* _get(path) is called: the counts of the request before are forgotten.
GetBegin ==
    /\ client.at \in {"idle", "done"}
    /\ client.requests < MaxCalls
    /\ client' = [client EXCEPT !.at = "auth", !.attempt = 0, !.result = "",
                                !.requests = @ + 1, !.sent = 0,
                                !.unauthorized = 0, !.reauths = 0]

\* _ensure_auth with a token that has more than a minute left: it is used.
AuthCached ==
    /\ client.at = "auth"
    /\ client.token # None /\ client.fresh
    /\ client' = [client EXCEPT !.at = "get"]

\* _ensure_auth without such a token: the challenge is requested, signed and
\* answered. The primary grants a token, refuses (ConnectionError leaves
\* _get), or the transport fails.
AuthExchange(outcome) ==
    /\ client.at = "auth"
    /\ ~(client.token # None /\ client.fresh)
    /\ client' =
          IF outcome = "granted"
          THEN [client EXCEPT !.at = "get", !.token = Some("token"), !.fresh = TRUE,
                              !.reauths = IF client.unauthorized > 0 THEN @ + 1 ELSE @]
          ELSE IF outcome = "refused"
          THEN [client EXCEPT !.at = "done", !.result = "Auth failed"]
          ELSE transport_error(client)

\* The GET is sent with the bearer token: a 401 drops the token and goes to
\* the next attempt, any other response is returned, a transport error is
\* retried.
SendGet(outcome) ==
    /\ client.at = "get"
    /\ LET counted == [client EXCEPT !.sent = @ + 1] IN
       client' =
          IF outcome = "401"
          THEN next_attempt([counted EXCEPT !.token = None, !.unauthorized = @ + 1])
          ELSE IF outcome = "transport"
          THEN transport_error(counted)
          ELSE [counted EXCEPT !.at = "done", !.result = outcome]

\* Time passes: the cached token has less than a minute left.
TokenAges ==
    /\ client.token # None /\ client.fresh
    /\ client.at \in {"idle", "done"}
    /\ client' = [client EXCEPT !.fresh = FALSE]

NextClient ==
    /\ \/ GetBegin
       \/ AuthCached
       \/ \E outcome \in {"granted", "refused", "transport"} : AuthExchange(outcome)
       \/ \E outcome \in {"200", "404", "401", "transport"} : SendGet(outcome)
       \/ TokenAges
    /\ UNCHANGED <<auditor_vars, now, plugin_vars, server_vars, store, saving, verified,
                   registry, runtime,
                   means,
                   redaction,
                   weighing,
                   recompute>>

SpecClient == InitClientSpec /\ [][NextClient]_vars

\* ------------------------------------------- accumulator pairs and their means
\* A number ws / wt or a default, kept as a fraction.
Frac(n, d) == [num |-> n, den |-> d]

\* Two fractions are the same number.
SameNumber(a, b) == a.num * b.den = b.num * a.den

\* The scored submissions of a miner in the rolling window: the brier score in
\* quarters, or none, and the decay weight.
ScoredSubmissions ==
    [brier : {None, Some(0), Some(1), Some(4)}, weight : 1..MaxWeight]

RECURSIVE weighted_sum(_)
\* np.sum(values * weights) over the submissions that have a brier score.
weighted_sum(subs) ==
    IF subs = <<>> THEN 0
    ELSE (IF Head(subs).brier = None THEN 0
          ELSE Head(subs).brier[1] * Head(subs).weight) + weighted_sum(Tail(subs))

RECURSIVE weight_sum(_)
\* np.sum(weights) over the submissions that have a brier score.
weight_sum(subs) ==
    IF subs = <<>> THEN 0
    ELSE (IF Head(subs).brier = None THEN 0 ELSE Head(subs).weight)
         + weight_sum(Tail(subs))

\* A job whose brier_mean without any brier value is the fallback of
\* derive_means.
compute_miner_metrics_fallback(subs) ==
    LET brier_ws == weighted_sum(subs)
        brier_wt == weight_sum(subs)
    IN  [brier_mean |-> IF brier_wt = 0 THEN Frac(0, 4) ELSE Frac(brier_ws, 4 * brier_wt),
         brier_ws |-> Frac(brier_ws, 4),
         brier_wt |-> brier_wt]

\* RollingAggregatesJob._compute_miner_metrics and _persist_results, for the
\* brier columns of the miner_rolling_score row: the weighted mean, 0.5 when
\* no submission has a brier score, and the pair (brier_ws, brier_wt).
compute_miner_metrics(subs) ==
    LET brier_ws == weighted_sum(subs)
        brier_wt == weight_sum(subs)
    IN  [brier_mean |-> IF brier_wt = 0 THEN Frac(1, 2) ELSE Frac(brier_ws, 4 * brier_wt),
         brier_ws |-> Frac(brier_ws, 4),
         brier_wt |-> brier_wt]

\* export_checkpoint for one row: the pair and the mean are copied from their
\* columns.
accumulator_entry(row) ==
    [brier |-> [ws |-> row.brier_ws, wt |-> row.brier_wt],
     brier_mean |-> row.brier_mean]

\* AccumulatorEntry.derive_means: ws / wt, or 0.0 when wt is 0.
derive_means(entry) ==
    [entry EXCEPT !.brier_mean =
        IF entry.brier.wt # 0
        THEN Frac(entry.brier.ws.num, entry.brier.ws.den * entry.brier.wt)
        ELSE Frac(0, 1)]

InitMeansSpec ==
    /\ Constructed(InitSync, None, <<>>)
    /\ plugin_input = NoPluginInput
    /\ plugin_result = None
    /\ ServerIdle

\* A submission of the miner is scored.
ScoreSubmission(sub) ==
    /\ means.row = None
    /\ Len(means.subs) < MaxSubmissions
    /\ means' = [means EXCEPT !.subs = Append(@, sub)]

\* The rolling aggregates job runs for the miner, who has submissions.
ComputeRolling ==
    /\ means.row = None
    /\ means.subs # <<>>
    /\ means' = [means EXCEPT !.row = Some(compute_miner_metrics(means.subs))]

\* export_checkpoint reads the row.
ExportEntry ==
    /\ means.row # None
    /\ means.entry = None
    /\ means' = [means EXCEPT !.entry = Some(accumulator_entry(means.row[1]))]

\* The auditor derives the means of the published entry.
DeriveEntry ==
    /\ means.entry # None
    /\ means.derived = None
    /\ means' = [means EXCEPT !.derived = Some(derive_means(means.entry[1]))]

NextMeans ==
    /\ \/ \E sub \in ScoredSubmissions : ScoreSubmission(sub)
       \/ ComputeRolling
       \/ ExportEntry
       \/ DeriveEntry
    /\ UNCHANGED <<auditor_vars, now, plugin_vars, server_vars, store, saving, verified,
                   registry, runtime, client,
                   redaction,
                   weighing,
                   recompute>>

SpecMeans == InitMeansSpec /\ [][NextMeans]_vars

\* ----------------------------------------------------------------- redaction
SAFE_ACCUMULATOR_FIELDS ==
    {"miner_id", "hotkey", "uid", "n_submissions", "n_outcomes", "brier", "fq",
     "pss", "es", "mes", "sos", "lead", "brier_mean", "fq_raw", "pss_mean",
     "es_adj", "mes_mean", "sos_score", "lead_score", "cal_score",
     "sharp_score"}

SAFE_ROLLING_SCORE_FIELDS ==
    {"miner_id", "miner_hotkey", "uid", "n_submissions", "n_eff", "es_mean",
     "es_std", "es_adj", "mes_mean", "sos_mean", "pss_mean", "fq_raw",
     "brier_mean", "lead_ratio", "fq_score", "cal_score", "sharp_score",
     "edge_score", "mes_score", "sos_score", "lead_score", "forecast_dim",
     "econ_dim", "info_dim", "skill_score", "score_version", "as_of",
     "window_days", "brier_ws", "brier_wt", "fq_ws", "fq_wt", "pss_ws",
     "pss_wt", "es_ws", "es_wt", "mes_ws", "mes_wt", "sos_ws", "sos_wt",
     "lead_ws", "lead_wt"}

SAFE_OUTCOME_FIELDS ==
    {"market_id", "event_id", "result", "score_home", "score_away",
     "settled_at"}

SAFE_MINER_FIELDS ==
    {"miner_id", "uid", "hotkey", "active"}

SAFE_SETTLED_SUBMISSION_FIELDS ==
    {"miner_id", "market_id", "side", "imp_prob", "brier", "pss", "settled_at"}

TIER3_FIELD_PATTERNS ==
    {"provider_quote", "odds_eu_close", "imp_prob_close",
     "imp_prob_norm_close", "ts_close", "raw", "ground_truth_snapshot",
     "ground_truth_closing", "sportsbook_bias", "close_odds_eu",
     "close_imp_prob", "close_imp_prob_norm", "clv_odds", "clv_prob", "cle",
     "minutes_to_close", "snapshot_prob", "snapshot_odds", "ext_ref",
     "odds_eu", "priced_at", "payload", "submitted_at"}

\* The names of the five Tier-2 allowlists.
AllowlistNames == {"accumulator", "rolling_score", "outcome", "miner", "settled_submission"}

Allowlist(name) ==
    CASE name = "accumulator" -> SAFE_ACCUMULATOR_FIELDS
      [] name = "rolling_score" -> SAFE_ROLLING_SCORE_FIELDS
      [] name = "outcome" -> SAFE_OUTCOME_FIELDS
      [] name = "miner" -> SAFE_MINER_FIELDS
      [] name = "settled_submission" -> SAFE_SETTLED_SUBMISSION_FIELDS

\* The row with these keys and values; a row without keys is the empty map.
Row(keys, value) == IF keys = {} THEN <<>> ELSE [k \in keys |-> value[k]]

\* A redact that keeps the allowlisted keys whatever their value.
redact_keeping_none(row, allowlist) ==
    Row({k \in DOMAIN row : k \in allowlist}, row)

\* redact: the allowlisted keys of the row whose value is not None.
redact(row, allowlist) ==
    Row({k \in DOMAIN row : k \in allowlist /\ row[k] # None}, row)

\* contains_tier3: a key of the row is a Tier 3 field.
contains_tier3(row) == (DOMAIN row) \cap TIER3_FIELD_PATTERNS # {}

\* The keys a source row may have: every allowlisted field, every Tier 3
\* field, and one that is in no list.
RowKeys ==
    UNION {Allowlist(name) : name \in AllowlistNames}
    \cup TIER3_FIELD_PATTERNS \cup {"unlisted_field"}

\* Source rows with one or two keys, each value None or a value.
Rows ==
    UNION { [{a, b} -> {None} \cup {Some(v) : v \in 1..MaxValue}] : a, b \in RowKeys }

InitRedactionSpec ==
    /\ Constructed(InitSync, None, <<>>)
    /\ plugin_input = NoPluginInput
    /\ plugin_result = None
    /\ ServerIdle

\* redact(row, allowlist) is called on a source row, and again on its result.
Redact(row, name) ==
    redaction' = [row |-> Some(row), allowlist |-> name,
                 out |-> Some(redact(row, Allowlist(name))),
                 again |-> Some(redact(redact(row, Allowlist(name)), Allowlist(name)))]

\* The exporter goes on to the next row.
RedactNext ==
    /\ redaction.out # None
    /\ redaction' = InitRedaction

NextRedaction ==
    /\ \/ redaction.out = None /\ \E row \in Rows, name \in AllowlistNames :
                                      Redact(row, name)
       \/ RedactNext
    /\ UNCHANGED <<auditor_vars, now, plugin_vars, server_vars, store, saving, verified,
                   registry, runtime, client, means,
                   weighing,
                   recompute>>

SpecRedaction == InitRedactionSpec /\ [][NextRedaction]_vars

\* ----------------------------------------------------------- compute_weights
\* Numbers are kept exact.  Of a call on n miners the normalised metrics are
\* counted in units of 1/(2n), the dimension weights and the skill score
\* weights in tenths, so that a skill score is counted in units of 1/(200n).

\* ScoringConfigSnapshot.params as compute_weights reads it when the keys are
\* absent: the defaults of its .get calls, in tenths.
DefaultParams ==
    [w_fq |-> 6, w_cal |-> 4, w_edge |-> 7, w_mes |-> 3, w_sos |-> 6, w_lead |-> 4,
     w_outcome_accuracy |-> 1, w_outcome_relative |-> 1, w_odds_edge |-> 5,
     w_info_adv |-> 3, burn_rate |-> 9]

\* MinerMetrics of up to MaxMiners miners: uid, fq_raw in {-1, 1} and
\* pss_mean in {0, 1}; the other means are at the defaults of the class
\* (es_adj 0.0, mes_mean, cal_score, sos_score and lead_score 0.5).
MinerMetricsSet == [uid : 0..(MaxNeurons - 1), fq_raw : {-1, 1}, pss_mean : {0, 1}]

MetricLists == UNION { [1..k -> MinerMetricsSet] : k \in 0..MaxMiners }

\* ChainParamsSnapshot: n_neurons, burn_uid, and a max_weight_limit of 1.0
\* (Frac(1, 1)) or of 1/MaxNeurons; min_allowed_weights is 1.
ChainParams ==
    [n_neurons : 1..MaxNeurons,
     burn_uid : {None} \cup { Some(u) : u \in 0..(MaxNeurons - 1) },
     max_weight_limit : {Frac(1, 1), Frac(1, MaxNeurons)},
     min_allowed_weights : {1}]

\* The orders a list of n metrics can be handed over in.
Orders(n) == { p \in [1..n -> 1..n] : \A i, j \in 1..n : p[i] = p[j] => i = j }

RECURSIVE from_uid(_, _)
\* The metrics of uid u and above in ascending order of uid, those of one uid
\* in the order of the list.
from_uid(miner_metrics, u) ==
    IF u >= MaxNeurons THEN <<>>
    ELSE SelectSeq(miner_metrics, LAMBDA m : m.uid = u) \o from_uid(miner_metrics, u + 1)

\* sorted(miner_metrics, key=lambda m: m.uid): Python's sort is stable.
sorted_by_uid(miner_metrics) == from_uid(miner_metrics, 0)

\* normalize_percentile, as an empirical distribution function: for each
\* entry the number of entries that are not above it, in units of 1/n.
normalize_percentile(x) ==
    [i \in 1..Len(x) |-> Cardinality({ j \in 1..Len(x) : x[j] <= x[i] })]

\* Steps 1 to 3 of compute_weights: the skill scores of the sorted metrics in
\* units of 1/(200n).  With fewer than min_count_for_zscore (10) miners the
\* percentile normalisation is used.
skill_scores(sorted_metrics, params) ==
    LET n == Len(sorted_metrics)
        fq_norm == [i \in 1..n |-> (sorted_metrics[i].fq_raw + 1) * n]
        pss_norm == normalize_percentile([i \in 1..n |-> sorted_metrics[i].pss_mean])
        es_norm == normalize_percentile([i \in 1..n |-> 0])
        half == n
        forecast_dim(i) == params.w_fq * fq_norm[i] + params.w_cal * half
        skill_dim(i) == 10 * 2 * pss_norm[i]
        econ_dim(i) == params.w_edge * 2 * es_norm[i] + params.w_mes * half
        info_dim(i) == params.w_sos * half + params.w_lead * half
    IN  [i \in 1..n |->
            params.w_outcome_accuracy * forecast_dim(i)
          + params.w_outcome_relative * skill_dim(i)
          + params.w_odds_edge * econ_dim(i)
          + params.w_info_adv * info_dim(i)]

\* Step 4 of compute_weights: scores = zeros(n_neurons), and for each i in
\* order scores[uid] = skill_score[i] when 0 <= uid < n_neurons.  A later
\* entry of a uid overwrites an earlier one.
scores_by_uid(sorted_metrics, skill_score, n_neurons) ==
    [k \in 1..n_neurons |->
        LET hits == SelectSeq([i \in 1..Len(sorted_metrics) |-> i],
                              LAMBDA i : sorted_metrics[i].uid = k - 1)
        IN  IF hits = <<>> THEN 0 ELSE skill_score[hits[Len(hits)]]]

\* The largest entry of a non-empty vector of naturals.
MaxOf(x) == CHOOSE v \in { x[i] : i \in 1..Len(x) } : \A i \in 1..Len(x) : x[i] <= v

\* _normalize_max_weight up to the common factor of its entries: uniform when
\* the sum is zero or len(x) * limit <= 1, and x itself when no entry is
\* above limit times the sum.  The limits of ChainParams never clip.
normalize_max_weight(x, limit) ==
    IF SumSeq(x) = 0 \/ Len(x) * limit.num <= limit.den
    THEN [i \in 1..Len(x) |-> 1]
    ELSE x

\* round(w / max_weight * U16_MAX), where round takes a tie to the even side.
round_u16(w, max_weight) ==
    LET q == (w * U16_MAX) \div max_weight
        r == (w * U16_MAX) % max_weight
    IN  IF 2 * r > max_weight THEN q + 1
        ELSE IF 2 * r = max_weight THEN q + (q % 2)
        ELSE q

\* _convert_to_uint16: the non-zero weights scaled by the largest, rounded,
\* and those that round to zero dropped.
convert_to_uint16(uids, weights) ==
    LET nz == SelectSeq([i \in 1..Len(weights) |-> i], LAMBDA i : weights[i] > 0)
    IN  IF nz = <<>> THEN [uids |-> <<>>, uint16_weights |-> <<>>]
        ELSE LET max_weight == MaxOf(weights)
                 kept == SelectSeq(nz, LAMBDA i : round_u16(weights[i], max_weight) # 0)
             IN  [uids |-> [k \in 1..Len(kept) |-> uids[kept[k]]],
                  uint16_weights |-> [k \in 1..Len(kept) |->
                                         round_u16(weights[kept[k]], max_weight)]]

\* compute_weights(miner_metrics, scoring_config, chain_params): the uids and
\* uint16_weights of its WeightResult.  raw_weights is counted in units of
\* 1/(10 * norm) when the burn is applied.
compute_weights(miner_metrics, params, chain_params) ==
    LET n_neurons == chain_params.n_neurons
        burn_uid == chain_params.burn_uid
        burn_in_range == burn_uid # None /\ burn_uid[1] < n_neurons
        empty == [uids |-> <<>>, uint16_weights |-> <<>>]
    IN  IF miner_metrics = <<>>
        THEN IF burn_uid # None
             THEN [uids |-> <<burn_uid[1]>>, uint16_weights |-> <<U16_MAX>>]
             ELSE empty
        ELSE
        LET sorted_metrics == sorted_by_uid(miner_metrics)
            scores == scores_by_uid(sorted_metrics,
                                    skill_scores(sorted_metrics, params), n_neurons)
            norm == SumSeq(scores)
            raw_weights ==
                IF norm = 0
                THEN [k \in 1..n_neurons |-> IF burn_in_range /\ k - 1 = burn_uid[1]
                                             THEN 1 ELSE 0]
                ELSE IF params.burn_rate > 0 /\ burn_in_range
                THEN [k \in 1..n_neurons |->
                         IF k - 1 = burn_uid[1] THEN params.burn_rate * norm
                         ELSE scores[k] * (10 - params.burn_rate)]
                ELSE scores
            nz == SelectSeq([k \in 1..n_neurons |-> k], LAMBDA k : raw_weights[k] > 0)
            nz_weights == [k \in 1..Len(nz) |-> raw_weights[nz[k]]]
            nz_uids == [k \in 1..Len(nz) |-> nz[k] - 1]
        IN  IF nz = <<>> THEN empty
            ELSE convert_to_uint16(
                    nz_uids, normalize_max_weight(nz_weights, chain_params.max_weight_limit))

InitWeightsSpec ==
    /\ Constructed(InitSync, None, <<>>)
    /\ plugin_input = NoPluginInput
    /\ plugin_result = None
    /\ ServerIdle

\* A checkpoint's metrics and chain parameters reach two callers of
\* compute_weights, the metrics of the second in the order `order`.
TakeMetrics(miner_metrics, order, chain_params) ==
    weighing' = [call |-> Some([miner_metrics |-> miner_metrics,
                                reordered |-> [i \in 1..Len(miner_metrics) |->
                                                  miner_metrics[order[i]]],
                                chain_params |-> chain_params]),
                 result |-> None, reordered |-> None]

\* The first caller runs compute_weights.
ComputeWeights ==
    /\ weighing.call # None
    /\ weighing.result = None
    /\ weighing' = [weighing EXCEPT !.result =
          Some(compute_weights(weighing.call[1].miner_metrics, DefaultParams,
                               weighing.call[1].chain_params))]

\* The second caller runs compute_weights on the reordered metrics.
ComputeReordered ==
    /\ weighing.call # None
    /\ weighing.reordered = None
    /\ weighing' = [weighing EXCEPT !.reordered =
          Some(compute_weights(weighing.call[1].reordered, DefaultParams,
                               weighing.call[1].chain_params))]

NextWeights ==
    /\ \/ /\ weighing.call = None
          /\ \E miner_metrics \in MetricLists, chain_params \in ChainParams :
                \E order \in Orders(Len(miner_metrics)) :
                    TakeMetrics(miner_metrics, order, chain_params)
       \/ ComputeWeights
       \/ ComputeReordered
    /\ UNCHANGED <<auditor_vars, now, plugin_vars, server_vars, store, saving, verified,
                   registry, runtime, client, means, redaction,
                   recompute>>

SpecWeights == InitWeightsSpec /\ [][NextWeights]_vars

\* ------------------------------------------- chain_params of a checkpoint
\* CheckpointWindow.chain_params: absent, or a ChainParamsSnapshot.
OptionalChainParams == {None} \cup { Some(c) : c \in ChainParams }

\* A checkpoint as export_checkpoint signs it, carrying chain_params.  The
\* manifest has the hashes of roster, accumulators and scoring_config.
checkpoint_with(chain_params) ==
    LET exported == export_checkpoint(1, None, "good")
    IN  [manifest |-> exported.manifest, roster |-> exported.roster,
         accumulators |-> exported.accumulators,
         scoring_config |-> exported.scoring_config,
         chain_params |-> chain_params]

\* put_checkpoint writes chain_params.json when the checkpoint has
\* chain_params, and _load_checkpoint reads the file when it exists: the
\* checkpoint read back after the file was replaced by, or removed for,
\* chain_params.
reloaded(signed, chain_params) == [signed EXCEPT !.chain_params = chain_params]

\* What step 3 of on_cycle derives from the subtensor and the metagraph when
\* the checkpoint has no chain_params.
DerivedChainParams ==
    [n_neurons |-> MaxNeurons, burn_uid |-> None,
     max_weight_limit |-> Frac(1, 1), min_allowed_weights |-> 1]

\* Steps 1, 3 and 4 of on_cycle on a checkpoint: the weights computed from
\* its accumulators under its chain_params.
weights_of(checkpoint) ==
    compute_weights(
        [i \in 1..Len(checkpoint.accumulators) |->
            [uid |-> checkpoint.accumulators[i].uid, fq_raw |-> 0, pss_mean |-> 0]],
        DefaultParams,
        IF checkpoint.chain_params # None THEN checkpoint.chain_params[1]
        ELSE DerivedChainParams)

InitServed ==
    /\ Constructed(InitSync, None, <<>>)
    /\ plugin_input = NoPluginInput
    /\ plugin_result = None
    /\ ServerIdle

\* A checkpoint signed with chain_params `signed` is stored, its
\* chain_params.json becomes `stored`, and the auditor fetches and verifies it.
VerifyServed(signed, stored) ==
    verified' = Some([window |-> reloaded(checkpoint_with(signed), stored),
                      kind |-> "checkpoint",
                      result |-> verify_checkpoint(reloaded(checkpoint_with(signed), stored)),
                      signed |-> checkpoint_with(signed)])

NextServed ==
    /\ \E signed, stored \in OptionalChainParams : VerifyServed(signed, stored)
    /\ UNCHANGED <<auditor_vars, now, plugin_vars, server_vars, store, saving, registry,
                   runtime, client, means, redaction, weighing,
                   recompute>>

SpecServed == InitServed /\ [][NextServed]_vars

\* ------------------------------------------------- POST /ledger/recompute
\* What a POST /ledger/recompute meets: a peer that is not local, a server
\* without exporter, a body that lacks a key, a reason_code outside the enum
\* (bump_epoch raises before it writes), or none of these.
RecomputeRequests == {"remote", "no_exporter", "invalid_body", "invalid_reason", "sound"}

\* _handle_recompute: the status it answers with, the epoch of its answer, and
\* the epoch row afterwards.  The checkpoint bump_epoch returns goes into the
\* answer only; the handler makes no call of the store.
handle_recompute(request, epoch) ==
    CASE request = "remote"         -> [status |-> 403, epoch |-> 0, row |-> epoch]
      [] request = "no_exporter"    -> [status |-> 500, epoch |-> 0, row |-> epoch]
      [] request = "invalid_body"   -> [status |-> 400, epoch |-> 0, row |-> epoch]
      [] request = "invalid_reason" -> [status |-> 500, epoch |-> 0, row |-> epoch]
      [] OTHER                      -> [status |-> 200, epoch |-> epoch + 1, row |-> epoch + 1]

\* put_checkpoint of a checkpoint of this epoch, window end and recompute
\* record: its directory epoch_<epoch>_<date> holds it afterwards.
put_checkpoint(stored, epoch, day, record) ==
    [k \in DOMAIN stored \cup {<<epoch, day>>} |->
        IF k = <<epoch, day>> THEN [epoch |-> epoch, recompute_record |-> record]
        ELSE stored[k]]

\* get_latest_checkpoint on these directories: the last in the order of the
\* names, None when there is none.
latest_stored(stored) ==
    IF DOMAIN stored = {} THEN None
    ELSE Some(stored[CHOOSE k \in DOMAIN stored :
                        \A other \in DOMAIN stored \ {k} : StrLess(cp_id(other), cp_id(k))])

InitRecomputeSpec ==
    /\ Constructed(InitSync, None, <<>>)
    /\ plugin_input = NoPluginInput
    /\ plugin_result = None
    /\ ServerIdle

\* A POST /ledger/recompute is handled.
PostRecompute(request) ==
    /\ recompute.epoch <= MaxEpoch
    /\ LET r == handle_recompute(request, recompute.epoch)
       IN  recompute' = [recompute EXCEPT
                            !.epoch = r.row,
                            !.answered = Some([status |-> r.status, epoch |-> r.epoch]),
                            !.fetched = None]

\* The primary exports a checkpoint of the current epoch, without recompute
\* record, and puts it into the store.
PublishCheckpoint ==
    recompute' = [recompute EXCEPT
                     !.stored = put_checkpoint(@, recompute.epoch, recompute.day, None)]

\* An auditor's cycle fetches the latest checkpoint, the first time since the
\* last answer.
FetchLatest ==
    /\ recompute.answered # None
    /\ recompute.fetched = None
    /\ recompute' = [recompute EXCEPT !.fetched = Some(latest_stored(recompute.stored))]

\* The canonical window end moves on by a day.
NextWindow ==
    /\ recompute.day < MaxWindowDay
    /\ recompute' = [recompute EXCEPT !.day = @ + 1]

NextRecompute ==
    /\ \/ \E request \in RecomputeRequests : PostRecompute(request)
       \/ PublishCheckpoint
       \/ FetchLatest
       \/ NextWindow
    /\ UNCHANGED <<auditor_vars, now, plugin_vars, server_vars, store, saving, verified,
                   registry, runtime, client, means, redaction, weighing>>

SpecRecompute == InitRecomputeSpec /\ [][NextRecompute]_vars

\* ------------------------------------------------------------ properties
\* The epoch-change state machine refused the checkpoint of this cycle.
ChangeRefused ==
    /\ change_result # None
    /\ change_result[1].status \in {"rejected", "paused"}

\* verify_checkpoint refused the checkpoint of this cycle.
CheckpointInvalid == cp_result # None /\ ~cp_result[1].valid

\* C1: the weight-verification plugin calls set_weights in a run only if the
\* cosine similarity with the primary's on-chain row was computed in that run
\* and is at least 1 - tolerance.
C1_SetWeightsOnlyOnComputedMatch ==
    plugin_result # None =>
        \A i \in 1..Len(plugin_result[1]) :
            plugin_result[1][i].set_weights =>
                plugin_result[1][i].computed /\ plugin_result[1][i].within

\* C2: in a cycle whose epoch change was rejected or paused the dispatcher is
\* not run on the checkpoint, so that no handler calls set_weights.
C2_NoWeightsAfterRefusedEpochChange ==
    ChangeRefused => results = None

\* C3: in a cycle whose checkpoint fails manifest verification the dispatcher
\* is not invoked, so that no handler calls set_weights.
C3_InvalidCheckpointNotDispatched ==
    CheckpointInvalid => results = None

\* A cycle ended on a checkpoint whose accumulators no longer hash to the
\* manifest's content hash.
C3_Witness ==
    /\ pc = "done"
    /\ CheckpointInvalid
    /\ \E i \in 1..Len(cp_result[1].errors) :
          cp_result[1].errors[i] = <<"content hash mismatch for", "accumulators">>

\* C4: a delta is in the accumulator, and the cursor stands on it, only after
\* that delta has passed manifest verification: every delta applied in this
\* cycle is among the verified ones.
C4_AppliedOnlyAfterVerified ==
    \A i \in 1..Len(latest_deltas) :
        \E j \in 1..Len(verified_deltas) : verified_deltas[j] = latest_deltas[i]

\* C5: a cycle whose checkpoint fails manifest verification leaves epoch,
\* accumulators, last_delta_id and recompute history as they were, in memory
\* and in the state file.
C5_InvalidCheckpointLeavesState ==
    CheckpointInvalid =>
        /\ sync.epoch = pre.sync.epoch
        /\ sync.accumulator = pre.sync.accumulator
        /\ sync.last_delta_id = pre.sync.last_delta_id
        /\ sync.recompute_history = pre.sync.recompute_history
        /\ load_state(disk) = load_state(pre.disk)

\* The accepted epoch changes up to the i-th that lie less than a horizon
\* before it.
AcceptedWithin(i, horizon) ==
    { j \in 1..i : accepted_at[i] - accepted_at[j] < horizon }

\* C6: no rolling 24 hours hold more than max_epoch_bumps_per_day accepted
\* epoch changes and no rolling 7 days more than max_epoch_bumps_per_week,
\* with or without a recompute record.
C6_AcceptedChangesRateLimited ==
    \A i \in 1..Len(accepted_at) :
        /\ Cardinality(AcceptedWithin(i, DaySeconds)) <= max_epoch_bumps_per_day
        /\ Cardinality(AcceptedWithin(i, WeekSeconds)) <= max_epoch_bumps_per_week

\* The entries of a recompute history less than a horizon old at time t.
Younger(history, t, horizon) ==
    Cardinality({ i \in 1..Len(history) : t - history[i].timestamp < horizon })

\* What the rate policy owes an epoch change at the return of
\* _handle_epoch_change: paused for the day while max_epoch_bumps_per_day
\* accepted entries are younger than 24 hours, accepted once fewer are and
\* the week is not full.
RatePolicyOutcome ==
    LET history == pre.sync.recompute_history
        day == Younger(history, now, DaySeconds)
        week == Younger(history, now, WeekSeconds)
    IN  /\ day >= max_epoch_bumps_per_day =>
              /\ change_result[1].status = "paused"
              /\ change_result[1].reason = "RECOMPUTE_RATE_EXCEEDED_DAILY"
        /\ (day < max_epoch_bumps_per_day /\ week < max_epoch_bumps_per_week) =>
              change_result[1].status = "accepted"

C8_AcceptedChangeResetsAndSaves ==
    (change_result # None /\ change_result[1].status = "accepted" /\ pc = "fetched") =>
        LET manifest == cp[1].manifest
            history == sync.recompute_history
        IN  /\ sync.epoch = manifest.checkpoint_epoch
            /\ sync.accumulator = <<>>
            /\ sync.last_delta_id = 0
            /\ sync.last_delta_ts = 0
            /\ manifest.recompute_record # None =>
                  /\ history = Append(pre.sync.recompute_history, history[Len(history)])
                  /\ history[Len(history)].epoch = manifest.checkpoint_epoch
                  /\ history[Len(history)].timestamp = now
            /\ disk # None
            /\ load_state(disk) = sync

\* A checkpoint with a record is accepted by an auditor that had accumulated
\* a delta.
C8_Witness ==
    /\ change_result # None
    /\ change_result[1].status = "accepted"
    /\ pc = "fetched"
    /\ cp[1].manifest.recompute_record # None
    /\ pre.sync.accumulator # <<>>
    /\ pre.sync.last_delta_id # 0

\* C9: when _handle_epoch_change has returned paused or rejected, epoch,
\* accumulators, last_delta_id, last_delta_ts and recompute history are as
\* before the call and the state file is as it was.
C9_RefusedChangeLeavesState ==
    (ChangeRefused /\ pc = "synced") => sync = pre.sync /\ disk = pre.disk

\* A change is paused in an auditor that holds accumulated deltas and a
\* state file.
C9_Witness ==
    /\ ChangeRefused
    /\ pc = "synced"
    /\ change_result[1].status = "paused"
    /\ sync.accumulator # <<>>
    /\ sync.last_delta_id # 0
    /\ disk # None

RECURSIVE apply_all(_, _)
\* _apply_delta over a sequence of deltas, in order.
apply_all(accumulator, deltas) ==
    IF deltas = <<>> THEN accumulator
    ELSE apply_all(apply_delta(accumulator, Head(deltas)), Tail(deltas))

\* C10: every delta applied since the accumulators were last emptied is of
\* the local epoch, and the accumulators hold the contributions of these
\* deltas and nothing else.
C10_AccumulatorOfCurrentEpoch ==
    /\ \A i \in 1..Len(contrib) : contrib[i].manifest.checkpoint_epoch = sync.epoch
    /\ sync.accumulator = apply_all(<<>>, contrib)

\* A cycle accepted an epoch change in an auditor that had accumulated, then
\* applied a delta of the new epoch.
C10_Witness ==
    /\ change_result # None
    /\ change_result[1].status = "accepted"
    /\ pre.sync.accumulator # <<>>
    /\ latest_deltas # <<>>
    /\ contrib = latest_deltas

\* The ids of the deltas applied since the accumulators were last emptied, in
\* the order of their application (a delta's window_end is its id).
AppliedIds == [i \in 1..Len(contrib) |-> contrib[i].manifest.window_end]

\* C11: between two accepted epoch changes no delta id is applied twice, the
\* ids are applied in ascending order, and last_delta_id never decreases.
C11_DeltasAppliedOnceAscending ==
    /\ [](\A i, j \in 1..Len(contrib) : i < j => AppliedIds[i] < AppliedIds[j])
    /\ [][sync'.epoch = sync.epoch => sync'.last_delta_id >= sync.last_delta_id]_vars

\* A cycle without an epoch change applies one more delta to an accumulator
\* that already held one.
C11_Witness ==
    /\ pc = "synced"
    /\ change_result = None
    /\ Len(latest_deltas) = 1
    /\ Len(contrib) = 2
    /\ sync.last_delta_id = AppliedIds[2]

\* The bump_epoch call c has returned its checkpoint.
Returned(c) == exporter.calls[c].pc = "returned"

\* No bump_epoch call is in flight.
BumpsQuiet ==
    \A c \in Calls : exporter.calls[c].pc \in {"idle", "raised", "failed", "returned"}

\* C12: a returned bump_epoch yields a checkpoint whose epoch is the one of
\* its recompute record and exceeds every epoch exported before the call
\* began; calls that interleave return different epochs, and when all calls
\* have returned the durable epoch is higher by their number.
C12_BumpEpochsIncreaseAndDiffer ==
    /\ \A c \in Calls : Returned(c) =>
          /\ exporter.calls[c].epoch = exporter.calls[c].new_epoch
          /\ exporter.calls[c].epoch > exporter.calls[c].floor
    /\ \A c, d \in Calls : (c # d /\ Returned(c) /\ Returned(d)) =>
          exporter.calls[c].epoch # exporter.calls[d].epoch
    /\ (\A c \in Calls : Returned(c)) => exporter.epoch = exporter.start + MaxCalls

\* C13: once a bump_epoch has failed after writing the epoch row and no call
\* is in flight, the durable epoch is either the one the row began with or
\* the epoch of a returned checkpoint that carries the record for it.
C13_EpochAndCheckpointTogether ==
    (BumpsQuiet /\ \E c \in Calls : exporter.calls[c].pc = "failed") =>
        \/ exporter.epoch = exporter.start
        \/ \E d \in Calls : /\ Returned(d)
                            /\ exporter.calls[d].epoch = exporter.epoch
                            /\ exporter.calls[d].new_epoch = exporter.epoch

\* verify_response has just issued a token.
TokenIssued(r) == r.route = "auth/respond" /\ r.status = 200

\* C14: no two tokens come from one nonce, a nonce that was presented to
\* verify_response is no longer pending whether or not it was accepted, and
\* a verify_response with a nonce presented before issues no token.
C14_NonceYieldsAtMostOneToken ==
    /\ [](\A i, j \in 1..Len(audit.issued) :
             i # j => audit.issued[i].nonce # audit.issued[j].nonce)
    /\ [](\A c \in policy.challenges : c.nonce \notin audit.answered)
    /\ [][TokenIssued(reply') => reply'.presented[1] \notin audit.answered]_vars

C14_Witness ==
    /\ reply.route = "auth/respond"
    /\ reply.status = 403
    /\ \E i \in 1..Len(audit.issued) : audit.issued[i].nonce = reply.presented[1]

\* The token is in the table and not older than its TTL.
Live(token) ==
    \E i \in 1..Len(policy.tokens) :
        /\ policy.tokens[i].token = token
        /\ now <= policy.tokens[i].created_at + token_ttl

\* C15: verify_response issues a token only for a pending nonce within its
\* TTL, issued to the hotkey that responds, with that hotkey's signature over
\* the nonce; validate_token on an issued token that is still in the table
\* and within its TTL returns the hotkey that was sent the challenge.
C15_TokenOnlyForSignedPendingNonce ==
    /\ [][TokenIssued(reply') =>
            /\ \E c \in policy.challenges :
                  /\ c.nonce = reply'.presented[1]
                  /\ now <= c.created_at + ChallengeTTL
                  /\ c.hotkey = reply'.hotkey
            /\ reply'.presented[2] =
                  Some([signer |-> reply'.hotkey, payload |-> reply'.presented[1]])]_vars
    /\ [](\A i \in 1..Len(audit.issued) :
             Live(audit.issued[i].token) =>
                validate_token(policy, audit.issued[i].token, now).hotkey
                    = Some(Challenger(audit.issued[i].nonce)))

C15_Witness ==
    /\ reply.route = "validate_token"
    /\ reply.hotkey = "hk_b"
    /\ Len(audit.issued) = 2
    /\ now = ChallengeTTL

\* The hotkey is in the metagraph.
Present(hotkey) == metagraph # None /\ hotkey \in DOMAIN metagraph[1]

\* The hotkey's neuron has the validator permit set.
Permitted(hotkey) == metagraph[1][hotkey].validator_permit = Some(TRUE)

\* The hotkey's neuron has a stake of at least the threshold.
Staked(hotkey) ==
    /\ metagraph[1][hotkey].S # None
    /\ metagraph[1][hotkey].S[1] >= min_stake_threshold

\* What the challenge route requires of the hotkey.
Qualifies(hotkey) ==
    /\ Present(hotkey)
    /\ test_mode \/ (Permitted(hotkey) /\ Staked(hotkey))

\* The first failing requirement, of the three.
FirstOfThree(hotkey) ==
    IF ~Present(hotkey) THEN "hotkey_not_found"
    ELSE IF ~Permitted(hotkey) THEN "no_validator_permit"
    ELSE "stake_too_low"

\* The first failing requirement, where an empty hotkey, a metagraph that
\* cannot be read and a neuron entry that cannot be read have reasons of
\* their own.
FirstOfSeven(hotkey) ==
    IF hotkey = "" THEN "empty_hotkey"
    ELSE IF metagraph = None THEN "metagraph_unavailable"
    ELSE IF ~Present(hotkey) THEN "hotkey_not_found"
    ELSE IF metagraph[1][hotkey].validator_permit = None THEN "vpermit_check_failed"
    ELSE IF ~Permitted(hotkey) THEN "no_validator_permit"
    ELSE IF metagraph[1][hotkey].S = None THEN "stake_check_failed"
    ELSE "stake_too_low"

\* The challenge route has just answered a request that had a JSON body.
ChallengeAnswered(r) == r.route = "auth/challenge" /\ r.status # 400

\* The route answers a nonce, now pending for the hotkey, exactly when the
\* hotkey qualifies, and else 403 with the reason and no change to the
\* pending challenges.
ChallengeRouteAnswers(Reason(_)) ==
    ChallengeAnswered(reply') =>
        IF Qualifies(reply'.hotkey)
        THEN /\ reply'.status = 200
             /\ \E c \in policy' .challenges :
                   /\ reply'.body = <<"nonce", c.nonce>>
                   /\ c.hotkey = reply'.hotkey
                   /\ c.created_at = now
             /\ \A c \in policy.challenges : reply'.body # <<"nonce", c.nonce>>
        ELSE /\ reply'.status = 403
             /\ Len(reply'.body) = 2
             /\ reply'.body[1] = "ineligible"
             /\ reply'.body[2][1] = Reason(reply'.hotkey)
             /\ policy' = policy

\* C16 as stated: the challenge route returns a fresh pending nonce iff the
\* hotkey is in the metagraph and, outside test mode, has the validator
\* permit and a stake of at least min_stake_threshold; else it answers 403
\* with the first failing reason of hotkey_not_found, no_validator_permit,
\* stake_too_low, and creates no challenge.
C16_ChallengeIffEligibleThreeReasons == [][ChallengeRouteAnswers(FirstOfThree)]_vars

\* C16 amended: the same, with the reasons empty_hotkey, metagraph_unavailable,
\* hotkey_not_found, vpermit_check_failed, no_validator_permit,
\* stake_check_failed, stake_too_low in this order, the last one followed by
\* the stake and the threshold.
C16_ChallengeIffEligibleSevenReasons ==
    /\ [][ChallengeRouteAnswers(FirstOfSeven)]_vars
    /\ [][(ChallengeAnswered(reply') /\ reply'.status = 403
              /\ reply'.body[2][1] = "stake_too_low") =>
            reply'.body[2] = <<"stake_too_low", metagraph[1][reply'.hotkey].S[1],
                               min_stake_threshold>>]_vars

C16_Witness ==
    /\ reply.route = "auth/challenge"
    /\ reply.status = 200
    /\ ~test_mode
    /\ metagraph[1][reply.hotkey].S = Some(min_stake_threshold)
    /\ \E c \in policy.challenges : c.hotkey = reply.hotkey /\ c.created_at = ChallengeTTL

\* A data route has just answered.
DataAnswered(r) == r.route \in DataRoutes

\* The header carries a bearer token that is in the table for the hotkey and
\* within its TTL.
ValidBearer(header, hotkey) ==
    /\ header[1] = "Bearer "
    /\ \E i \in 1..Len(policy.tokens) :
          /\ policy.tokens[i].token = header[2]
          /\ policy.tokens[i].hotkey = hotkey
          /\ now <= policy.tokens[i].created_at + token_ttl

\* The calls logged for the hotkey within the last hour.
InWindow(hotkey) ==
    Cardinality({i \in 1..Len(policy.request_log[hotkey]) :
                    now - policy.request_log[hotkey][i] < RateWindow})

\* C17: a data route reads the store only for a request with a valid bearer
\* token whose hotkey is within its limit; it answers 429 to a valid token
\* over the limit; when it answers 401 no rate-limit call was made and no
\* hotkey's request log changed.
C17_DataOnlyWithTokenWithinLimit ==
    [][DataAnswered(reply') =>
          IF reply'.status = 401
          THEN /\ ~reply'.read
               /\ policy'.request_log = policy.request_log
               /\ audit'.requests = audit.requests
          ELSE /\ ValidBearer(reply'.presented, reply'.hotkey)
               /\ audit'.requests = audit.requests + 1
               /\ IF reply'.status = 429
                  THEN ~reply'.read /\ InWindow(reply'.hotkey) >= rate_limit_per_hour
                  ELSE /\ InWindow(reply'.hotkey) < rate_limit_per_hour
                       /\ reply'.body = <<"content">> => reply'.read]_vars

C17_Witness ==
    /\ reply.route = "deltas/{delta_id}"
    /\ reply.status = 429
    /\ reply.hotkey = "hk_b"
    /\ Len(policy.request_log["hk_b"]) = rate_limit_per_hour + 1

\* C18: for each hotkey, the allowed check_rate_limit calls within one hour
\* from any allowed call number at most rate_limit_per_hour.
C18_AllowedCallsPerHourBounded ==
    \A h \in Hotkeys : \A i \in 1..Len(audit.allowed[h]) :
        Cardinality({j \in 1..Len(audit.allowed[h]) :
                        /\ audit.allowed[h][j] >= audit.allowed[h][i]
                        /\ audit.allowed[h][j] < audit.allowed[h][i] + RateWindow})
            <= rate_limit_per_hour

C18_Witness ==
    /\ reply.status = 429
    /\ now = RateWindow
    /\ Len(audit.allowed["hk_a"]) = rate_limit_per_hour + 1
    /\ audit.allowed["hk_a"][1] = 0
    /\ audit.allowed["hk_a"][rate_limit_per_hour + 1] = RateWindow

\* The challenge route would refuse the hotkey now.
Ineligible(hotkey) == ~check_eligibility(metagraph, test_mode, hotkey).eligible

\* C19: a token in the table and within its TTL is accepted by validate_token
\* and by the data routes' _check_auth for its hotkey, also when the hotkey is
\* no longer eligible; a challenge for a hotkey that is not eligible is
\* refused with 403.
C19_EligibilityNotRecheckedOnUse ==
    /\ \A i \in 1..Len(audit.issued) :
          Live(audit.issued[i].token) =>
             /\ validate_token(policy, audit.issued[i].token, now).hotkey
                   = Some(audit.issued[i].hotkey)
             /\ check_auth(policy, <<"Bearer ", audit.issued[i].token>>, now).hotkey
                   = Some(audit.issued[i].hotkey)
    /\ (reply.route = "auth/challenge" /\ Ineligible(reply.hotkey)) => reply.status = 403
    /\ (reply.route = "validate_token" /\ reply.hotkey = "") =>
          ~Live(reply.presented[1])

C19_Witness ==
    /\ reply.route = "validate_token"
    /\ reply.hotkey = "hk_a"
    /\ Ineligible("hk_a")
    /\ now = token_ttl

\* The tokens of the table, in its order.
TableTokens(p) == [i \in 1..Len(p.tokens) |-> p.tokens[i].token]

\* The token of the table that was issued or successfully validated least
\* recently, by the order of last use.
LeastRecentlyUsed ==
    LET held == SelectSeq(audit.recency,
                          LAMBDA k : \E i \in 1..Len(policy.tokens) :
                                        policy.tokens[i].token = k)
    IN  held[1]

\* C20: the table never holds more than max_tokens tokens; a token issued
\* while the table is full evicts exactly the token least recently issued or
\* successfully validated; validate_token returns a hotkey only for a token
\* that is within its TTL.
C20_TokenTableBoundedLRU ==
    /\ [](Len(policy.tokens) <= max_tokens)
    /\ [][(TokenIssued(reply') /\ Len(policy.tokens) = max_tokens) =>
            {policy.tokens[i].token : i \in 1..Len(policy.tokens)}
                \ {policy'.tokens[i].token : i \in 1..Len(policy'.tokens)}
              = {LeastRecentlyUsed}]_vars
    /\ [][(reply'.route = "validate_token" /\ reply'.hotkey # "") =>
            \E i \in 1..Len(audit.issued) :
                /\ audit.issued[i].token = reply'.presented[1]
                /\ audit.issued[i].hotkey = reply'.hotkey
                /\ now <= audit.issued[i].created_at + token_ttl]_vars

C20_Witness ==
    /\ TokenIssued(reply)
    /\ Len(audit.issued) = max_tokens + 1
    /\ audit.recency[1] = 2
    /\ TableTokens(policy)[1] = 1
    /\ Len(policy.tokens) = max_tokens

\* No put is in progress and every checkpoint directory has all its files,
\* written by one put.
CheckpointsComplete ==
    /\ store.writing = None
    /\ \A k \in DOMAIN store.checkpoints :
          \A i \in 1..Len(store.checkpoints[k]) :
             store.checkpoints[k][i] = store.checkpoints[k][1] /\ store.checkpoints[k][1] # 0

\* C21: with the stored checkpoints complete, get_latest_checkpoint returns
\* the one with the greatest checkpoint_epoch and, among those, the greatest
\* window_end.
C21_LatestCheckpointByEpochThenEnd ==
    (CheckpointsComplete /\ DOMAIN store.checkpoints # {}) =>
        LET latest == get_latest_checkpoint(store)
        IN  /\ latest.outcome = "window"
            /\ \A k \in DOMAIN store.checkpoints :
                  \/ k[1] < latest.key[1]
                  \/ k[1] = latest.key[1] /\ k[2] <= latest.key[2]

\* The ids of an epoch's stored deltas whose window_end is later than since.
IdsEndingAfter(epoch, since) ==
    SortedIds({k \in DOMAIN store.deltas :
                  k[1] = epoch /\ (since = None \/ k[3] > since[1])})

\* No put is in progress and every delta directory has all its files, written
\* by one put.
DeltasComplete ==
    /\ store.writing = None
    /\ \A k \in DOMAIN store.deltas :
          \A i \in 1..Len(store.deltas[k]) :
             store.deltas[k][i] = store.deltas[k][1] /\ store.deltas[k][1] # 0

\* C22: with the stored deltas complete, list_deltas(epoch, since) is the
\* ascending list of exactly the ids of the deltas stored under the epoch whose
\* window_end is later than since, all of them without since.
C22_ListDeltasByWindowEnd ==
    DeltasComplete =>
    \A epoch \in StoreEpochs, since \in {None} \cup {Some(d) : d \in WindowDays} :
        list_deltas(store, epoch, since) = IdsEndingAfter(epoch, since)

\* The window that was read has all its files from one put.
Whole(w) == w.outcome = "window" => \A i \in 1..Len(w.files) : w.files[i] = w.files[1]

\* C23: whenever no put is in progress, also after one was interrupted, the
\* reads do not fail and see only windows whose files come from one put.
C23_StoreWritesAtomic ==
    store.writing = None =>
        /\ get_latest_checkpoint(store).outcome # "raises"
        /\ Whole(get_latest_checkpoint(store))
        /\ \A a, b \in WindowDays : \A w \in store_get_delta(store, <<a, b>>) :
              w.outcome # "raises" /\ Whole(w)

\* C24: once a state was saved, the state file is at every step the complete
\* document of the state saved last, whatever step a later _save_state has
\* reached or failed at, and a fresh LedgerSync holds exactly that state.
C24_StateFileWholeAndRestored ==
    saving.last # None =>
        /\ disk = save_state(saving.last[1])
        /\ saving.fresh => sync = saving.last[1]

\* A _save_state was cut short after a state had been saved, and the auditor
\* restarted from the file.
C24_Witness ==
    /\ saving.last # None
    /\ saving.fresh
    /\ saving.tmp # None
    /\ saving.tmp # disk
    /\ sync.epoch > 0

\* The five fields are as the constructor leaves them.
EmptyState ==
    /\ sync.epoch = 0
    /\ sync.last_delta_id = 0
    /\ sync.last_delta_ts = 0
    /\ sync.accumulator = <<>>
    /\ sync.recompute_history = <<>>

\* C25: a fresh auditor whose state file exists and cannot be loaded in full
\* starts from the empty state.
C25_CorruptStateFileStartsEmpty ==
    (/\ saving.fresh
     /\ disk # None
     /\ (unparseable(disk[1]) \/ malformed_history(disk[1]))) => EmptyState

\* The section's hash is in the manifest and equals the recomputed one.
SectionHolds(window, name) ==
    /\ name \in DOMAIN window.manifest.content_hashes
    /\ window.manifest.content_hashes[name] = compute_section_hash(window[name])

\* The checks of the window verified last that fail: the four on the manifest
\* by their name, the content-hash check by the sections it fails for.
FailedChecks ==
    LET window == verified[1].window
        manifest == window.manifest
        names == SectionNames(verified[1].kind)
    IN  (IF manifest.schema_version # LEDGER_SCHEMA_VERSION
         THEN {"schema_version"} ELSE {})
        \cup (IF manifest.primary_hotkey # ExpectedPrimaryHotkey
              THEN {"primary_hotkey"} ELSE {})
        \cup (IF ~verify_manifest(manifest, ExpectedPrimaryHotkey)
              THEN {"signature"} ELSE {})
        \cup {names[i] : i \in {j \in 1..Len(names) : ~SectionHolds(window, names[j])}}
        \cup (IF manifest.window_type # verified[1].kind
              THEN {"window_type"} ELSE {})

C27_DispatchEveryHandlerOnce ==
    registry.results # None =>
        LET handlers == registry.handlers
            returned == registry.results[1]
        IN  /\ registry.invoked = [i \in 1..Len(handlers) |-> handlers[i].name]
            /\ Len(returned) = Len(handlers)
            /\ \A i \in 1..Len(handlers) :
                  /\ returned[i].plugin_name = handlers[i].name
                  /\ handlers[i].does = "raises" => returned[i].status = "error"
                  /\ handlers[i].does # "raises" => returned[i] = handler_result(handlers[i])

\* A dispatch over three handlers of which the first raised and a later one
\* returned.
C27_Witness ==
    /\ registry.results # None
    /\ Len(registry.handlers) = 3
    /\ registry.handlers[1].does = "raises"
    /\ registry.handlers[3].does = "pass"

\* C28: the loop leaves by itself exactly when max_errors cycles in a row
\* have raised: the counter is the number of cycles that raised since the last
\* one that returned, the loop is left for too many errors only with that
\* number at max_errors, it never goes on with it, and the sleep after a
\* failure short of max_errors is followed by a cycle unless the runtime was
\* stopped or cancelled.
C28_StopsExactlyAtMaxErrors ==
    /\ [](/\ runtime.consecutive_errors = runtime.streak
          /\ runtime.ended = "too_many_errors" => runtime.streak = max_errors
          /\ runtime.streak >= max_errors => runtime.ended = "too_many_errors")
    /\ [][(/\ runtime.at = "error_sleep"
           /\ runtime'.at # "error_sleep"
           /\ runtime.running
           /\ runtime'.ended # "cancelled")
          => (runtime'.at = "cycle" /\ runtime'.cycles = runtime.cycles + 1)]_vars

\* The loop was left after max_errors failures in a row that followed a cycle
\* that returned.
C28_Witness ==
    /\ runtime.ended = "too_many_errors"
    /\ runtime.cycles > max_errors
    /\ ~runtime.stop_called

\* C29: once stop() has been called no further cycle is started, whether it
\* was called before run() began, during a cycle or during a sleep.
C29_NoCycleAfterStop == ~runtime.started_after_stop

\* C30: within one _get the client authenticates again at most once after a
\* 401, and a request that met one 401 has authenticated again and been
\* repeated, however many attempts transport errors have used, unless the
\* primary refused the authentication or the transport failed for good.
C30_ReauthOnceOn401 ==
    /\ client.reauths <= 1
    /\ (/\ client.at = "done"
        /\ client.unauthorized = 1
        /\ client.result \notin {"Auth failed", "TransportError"}) =>
          (client.reauths = 1 /\ client.sent >= 2)

\* C31: the brier mean of a published accumulator entry is ws / wt of its
\* pair, or 0.0 when wt is 0, so the mean the auditor derives is the published
\* one.
C31_PublishedMeanIsDerivedMean ==
    means.derived # None =>
        SameNumber(means.entry[1].brier_mean, means.derived[1].brier_mean)

\* C32: redact returns the map of exactly the allowlisted keys of the row
\* whose value is not None, with their values; that map has no Tier 3 key; and
\* redact applied to it returns it.
C32_RedactKeepsAllowlistedOnly ==
    redaction.out # None =>
        LET row == redaction.row[1]
            out == redaction.out[1]
            allowlist == Allowlist(redaction.allowlist)
        IN  /\ DOMAIN out = {k \in DOMAIN row : k \in allowlist /\ row[k] # None}
            /\ \A k \in DOMAIN out : out[k] = row[k]
            /\ ~contains_tier3(out)
            /\ redaction.again[1] = out

\* A row with an allowlisted key and a Tier 3 key was redacted, and the
\* allowlisted key was kept.
C32_Witness ==
    /\ redaction.out # None
    /\ contains_tier3(redaction.row[1])
    /\ DOMAIN redaction.out[1] # {}

\* The submissions of the deltas that have a brier and, in their own delta,
\* an outcome of the same market with a result.
SubmissionsWithResult(deltas) ==
    SumSeq([k \in 1..Len(deltas) |->
        Cardinality({ i \in 1..Len(deltas[k].settled_submissions) :
            /\ deltas[k].settled_submissions[i].brier # None
            /\ \E j \in 1..Len(deltas[k].settled_outcomes) :
                  /\ deltas[k].settled_outcomes[j].market_id
                        = deltas[k].settled_submissions[i].market_id
                  /\ deltas[k].settled_outcomes[j].result # None })])

\* The plugin run got past its two skips and did not raise.
PluginRan ==
    /\ plugin_result # None
    /\ plugin_result[1][1].status \in {"pass", "fail"}

\* C33: a run of the weight-verification plugin decides the match and the
\* set_weights call as it would on the same checkpoint without any delta,
\* reports no more mismatches than checks, and counts as checks exactly the
\* submissions with a brier that have, in their delta, an outcome of the same
\* market with a result.
C33_BrierChecksCountedAndHarmless ==
    PluginRan =>
        LET result == plugin_result[1][1]
            quiet == on_cycle(plugin_input.checkpoint, <<>>, plugin_input.env)
        IN  /\ result.match = quiet.match
            /\ result.set_weights = quiet.set_weights
            /\ result.status = quiet.status
            /\ result.brier_mismatches <= result.brier_checks
            /\ result.brier_checks = SubmissionsWithResult(plugin_input.deltas)

\* The part of C33 that does not depend on which outcome of a market is read.
C33_MismatchesHarmless ==
    PluginRan =>
        LET result == plugin_result[1][1]
            quiet == on_cycle(plugin_input.checkpoint, <<>>, plugin_input.env)
        IN  /\ result.match = quiet.match
            /\ result.set_weights = quiet.set_weights
            /\ result.brier_mismatches <= result.brier_checks

\* Both callers of compute_weights have their result.
BothComputed == weighing.result # None /\ weighing.reordered # None

\* No two of the metrics handed to compute_weights have the same uid.
DistinctUids ==
    LET m == weighing.call[1].miner_metrics
    IN  \A i, j \in 1..Len(m) : m[i].uid = m[j].uid => i = j

\* C34: two calls of compute_weights on the same metrics, scoring config and
\* chain parameters return the same uids and uint16_weights, in whatever
\* order the metrics are handed over.
C34_WeightsIndependentOfOrder ==
    BothComputed =>
        /\ weighing.result[1].uids = weighing.reordered[1].uids
        /\ weighing.result[1].uint16_weights = weighing.reordered[1].uint16_weights

\* C34 for metrics of distinct uids.
C34_WeightsOfDistinctUids ==
    BothComputed /\ DistinctUids =>
        weighing.result[1] = weighing.reordered[1]
\* The chain_params of the checkpoint verified last are not those it was
\* signed with.
ChainParamsChanged ==
    /\ verified # None
    /\ "signed" \in DOMAIN verified[1]
    /\ verified[1].window.chain_params # verified[1].signed.chain_params

\* C35: a signed checkpoint whose chain_params were changed without signing it
\* again fails verify_checkpoint.
C35_ChangedChainParamsRefused ==
    ChainParamsChanged => ~verified[1].result.valid

\* C35 for the changes of chain_params that change the weights computed from
\* the checkpoint.
C35_ChangedWeightsRefused ==
    ChainParamsChanged /\ weights_of(verified[1].window) # weights_of(verified[1].signed)
        => ~verified[1].result.valid

\* The checkpoint fetched in this cycle has a lower epoch than the auditor had
\* when the cycle began, and _handle_epoch_change has returned.
LowerEpochFetched ==
    /\ change_result # None
    /\ cp # None
    /\ cp[1].manifest.checkpoint_epoch < pre.sync.epoch

\* C36: a fetched checkpoint whose epoch is lower than the local epoch is not
\* accepted, and leaves the local epoch and the accumulators as they were.
C36_LowerEpochNeverAccepted ==
    LowerEpochFetched =>
        /\ change_result[1].status # "accepted"
        /\ sync.epoch = pre.sync.epoch
        /\ sync.accumulator = pre.sync.accumulator

\* C36, the accumulators alone: a fetched checkpoint of a lower epoch does not
\* empty accumulators that hold contributions.
C36_LowerEpochKeepsAccumulators ==
    LowerEpochFetched /\ pre.sync.accumulator # <<>> => sync.accumulator # <<>>

\* POST /ledger/recompute has answered ok, and the store was asked for its
\* latest checkpoint afterwards.
FetchedAfterOk ==
    /\ recompute.answered # None
    /\ recompute.answered[1].status = 200
    /\ recompute.fetched # None

\* C37: once POST /ledger/recompute has answered ok with epoch E, the next
\* get_latest_checkpoint returns a checkpoint of epoch E that carries the
\* recompute record of E.
C37_RecomputeCheckpointStored ==
    FetchedAfterOk =>
        LET latest == recompute.fetched[1]
        IN  /\ latest # None
            /\ latest[1].epoch = recompute.answered[1].epoch
            /\ latest[1].recompute_record = Some(recompute.answered[1].epoch)

\* C37 without the record: the next get_latest_checkpoint returns a
\* checkpoint of epoch E.
C37_RecomputeEpochObserved ==
    FetchedAfterOk =>
        /\ recompute.fetched[1] # None
        /\ recompute.fetched[1][1].epoch = recompute.answered[1].epoch

\* C38: for every id that list_deltas(epoch) returns, get_delta(id) returns
\* the delta stored under that epoch, whatever other epoch has a delta of the
\* same id.
C38_GetDeltaOfListedEpoch ==
    DeltasComplete =>
        \A epoch \in StoreEpochs :
            LET ids == list_deltas(store, epoch, None)
            IN  \A i \in 1..Len(ids) :
                    \A got \in store_get_delta(store, ids[i]) :
                        /\ got.outcome = "window"
                        /\ got.key = <<epoch, ids[i][1], ids[i][2]>>


\* C39: when the delta loop of a sync cycle gets no delta for a listed new id,
\* the cycle does not move last_delta_id past that id.
C39_MissingDeltaNotPassed ==
    [][ (pc = "fetched" /\ pc' = "synced") =>
            \A answers \in StoreAnswers :
                LET get == [id \in DeltaIds |-> get_delta(answers, id, sync.epoch)]
                    ids == new_ids(sync, listed_ids(answers))
                    r == delta_loop([sync |-> sync, latest_deltas |-> <<>>], ids, get)
                IN  (sync' = r.sync /\ latest_deltas' = r.latest_deltas) =>
                        \A i \in 1..Len(ids) :
                            get[ids[i]] = None => sync'.last_delta_id <= ids[i] ]_vars


\* q is made of the last entries of r.
IsSuffix(q, r) ==
    /\ Len(q) <= Len(r)
    /\ \A i \in 1..Len(q) : q[i] = r[Len(r) - Len(q) + i]

\* The calls of check_rate_limit for a hotkey, allowed or refused, that lie
\* within the hour before now.
CallsWithinHour(hotkey) ==
    SelectSeq(audit.calls[hotkey], LAMBDA t : now - t < RateWindow)

\* The request served last went through check_rate_limit for this hotkey.
RateChecked(hotkey) ==
    /\ reply.route \in DataRoutes
    /\ reply.status # 401
    /\ reply.hotkey = hotkey

\* C40: check_rate_limit keeps a record of every call of a hotkey, allowed or
\* refused, and of no call of another hotkey; a call is refused exactly when
\* rate_limit_per_hour or more earlier calls of the hotkey, of either
\* outcome, lie within the past hour, so that a hotkey is allowed when its
\* earlier calls are all an hour old.
C40_RateLimitCountsEveryCall ==
    \A hotkey \in Hotkeys :
        /\ IsSuffix(policy.request_log[hotkey], audit.calls[hotkey])
        /\ RateChecked(hotkey) =>
              /\ policy.request_log[hotkey] = CallsWithinHour(hotkey)
              /\ reply.status = 429 <=>
                    Len(CallsWithinHour(hotkey)) - 1 >= rate_limit_per_hour
              /\ Len(CallsWithinHour(hotkey)) = 1 => reply.status # 429

\* A hotkey that was refused before is allowed again, its earlier calls being
\* an hour old.
C40_Witness ==
    \E hotkey \in Hotkeys :
        /\ RateChecked(hotkey)
        /\ reply.status = 200
        /\ Len(audit.calls[hotkey]) > Len(audit.allowed[hotkey])
        /\ Len(CallsWithinHour(hotkey)) = 1

=============================================================================
